---- MODULE Spec2Model ----
(***************************************************************************)
(* A model of the template resolver: Lexer, Parser, type coercion, the     *)
(* expression evaluator and the tree-walking Interpreter.                  *)
(*                                                                         *)
(* Strings are sequences of one-character strings, indexed from 0 the way  *)
(* the TypeScript source indexes them (Slice, StartsWithAt, IndexOfFrom).  *)
(* A TemplateValue is a record [t |-> tag, v |-> payload]:                  *)
(*   "undef" / "null"  payload 0                                           *)
(*   "bool"            payload TRUE / FALSE                                *)
(*   "num"             payload <<n, d>>, the rational n/d in lowest terms; *)
(*                     d = 0 encodes NaN (n = 0) and +/-Infinity (n = +-1) *)
(*   "str"             payload the characters                              *)
(*   "arr"             payload the sequence of element values              *)
(*   "obj"             payload the sequence of <<key, value>> pairs, in    *)
(*                     insertion order, keys unique                        *)
(* A VariableMap (a JavaScript Map) is a sequence of <<name, value>>       *)
(* pairs in insertion order.                                               *)
(***************************************************************************)
EXTENDS Integers, Sequences, FiniteSets, TLC

VARIABLES
  pc,          \* the step that runs next
  template,    \* Lexer.template, or the text handed to the evaluator under study
  variables,   \* Interpreter.variables, the caller's VariableMap
  strictMode,  \* Interpreter.strictMode
  loopContext, \* Interpreter.loopContext, the loop overlay
  tokens,      \* Lexer.tokens, or tokenizeMath's tokens
  pos,         \* Lexer.pos, tokenizeMath's i, or the index of visitProgram's next child
  line,        \* Lexer.line
  column,      \* Lexer.column
  ast,         \* the Parser's result (a ProgramNode or a VariableNode)
  results,     \* the strings visitProgram has rendered so far
  trace,       \* the nodes the Interpreter has visited so far, in order, each with the loop context it saw
  outcome,     \* what the call returned or threw
  given        \* how the input was put together (read by the properties only)

vars == <<pc, template, variables, strictMode, loopContext, tokens, pos, line, column, ast, results,
          trace, outcome, given>>

----------------------------------------------------------------------------
(* Characters and JavaScript string primitives *)

Digits == <<"0","1","2","3","4","5","6","7","8","9">>
Uppers == <<"A","B","C","D","E","F","G","H","I","J","K","L","M","N","O","P","Q","R","S","T","U","V","W","X","Y","Z">>
Lowers == <<"a","b","c","d","e","f","g","h","i","j","k","l","m","n","o","p","q","r","s","t","u","v","w","x","y","z">>

\* f at the one point of its domain: With([x \in {e} |-> body]) is body with x
\* standing for the value of e
With(f) == f[CHOOSE x \in DOMAIN f : TRUE]

InSeq(c, s) == \E k \in 1..Len(s) : s[k] = c
IndexIn(c, s) == CHOOSE k \in 1..Len(s) : s[k] = c

\* /\s/ and the characters String.prototype.trim strips
IsSpace(c) == c \in {" ", "\t", "\n", "\r", "\f"}
IsDigit(c) == InSeq(c, Digits)
\* /\w/
IsWord(c) == InSeq(c, Digits) \/ InSeq(c, Uppers) \/ InSeq(c, Lowers) \/ c = "_"

SetMin(S) == CHOOSE x \in S : \A y \in S : x <= y
SetMax(S) == CHOOSE x \in S : \A y \in S : y <= x

\* s.slice(a, b): 0-based, end exclusive, negative indices count from the end
Slice(s, a, b) ==
  LET n == Len(s)
      lo == IF a < 0 THEN (IF n + a < 0 THEN 0 ELSE n + a) ELSE (IF a > n THEN n ELSE a)
      hi == IF b < 0 THEN (IF n + b < 0 THEN 0 ELSE n + b) ELSE (IF b > n THEN n ELSE b)
  IN IF lo >= hi THEN <<>> ELSE SubSeq(s, lo + 1, hi)

SliceFrom(s, a) == Slice(s, a, Len(s))

\* s.startsWith(p, i)
StartsWithAt(s, p, i) ==
  /\ i >= 0
  /\ i + Len(p) <= Len(s)
  /\ \A k \in 1..Len(p) : s[i + k] = p[k]

StartsWith(s, p) == StartsWithAt(s, p, 0)
EndsWith(s, p) == StartsWithAt(s, p, Len(s) - Len(p))

\* s.indexOf(p, i): -1 when absent
IndexOfFrom(s, p, i) ==
  LET hits == {j \in i..(Len(s) - Len(p)) : StartsWithAt(s, p, j)}
  IN IF hits = {} THEN -1 ELSE SetMin(hits)

IndexOf(s, p) == IndexOfFrom(s, p, 0)
Includes(s, p) == IndexOf(s, p) # -1

\* s.trim()
Trim(s) ==
  LET keep == {k \in 1..Len(s) : ~IsSpace(s[k])}
  IN IF keep = {} THEN <<>> ELSE SubSeq(s, SetMin(keep), SetMax(keep))

\* s.toLowerCase()
ToLower(s) ==
  [k \in 1..Len(s) |-> IF InSeq(s[k], Uppers) THEN Lowers[IndexIn(s[k], Uppers)] ELSE s[k]]

\* s.split(sep), sep not empty
RECURSIVE Split(_, _)
Split(s, sep) ==
  With([at \in {IndexOf(s, sep)} |->
    IF at = -1 THEN <<s>>
    ELSE <<Slice(s, 0, at)>> \o Split(SliceFrom(s, at + Len(sep)), sep)])

\* parts.join(sep)
RECURSIVE Join(_, _)
Join(parts, sep) ==
  IF parts = <<>> THEN <<>>
  ELSE IF Len(parts) = 1 THEN parts[1]
  ELSE parts[1] \o sep \o Join(Tail(parts), sep)

\* parts.map(p => p.trim())
TrimAll(parts) == [k \in 1..Len(parts) |-> Trim(parts[k])]

\* s.replace(/^["']|["']$/g, ""): one quote off each end
StripQuotes(s) ==
  LET a == IF s # <<>> /\ s[1] \in {"\"", "'"} THEN Tail(s) ELSE s
  IN IF a # <<>> /\ a[Len(a)] \in {"\"", "'"} THEN SubSeq(a, 1, Len(a) - 1) ELSE a

----------------------------------------------------------------------------
(* JavaScript numbers, as rationals with NaN and the infinities *)

RECURSIVE Gcd(_, _)
Gcd(a, b) == IF b = 0 THEN a ELSE Gcd(b, a % b)

Abs(n) == IF n < 0 THEN -n ELSE n
Sign(n) == IF n < 0 THEN -1 ELSE IF n > 0 THEN 1 ELSE 0

\* the number n/d in lowest terms; x/0 is NaN or an infinity
Ratio(n, d) ==
  IF d = 0 THEN <<Sign(n), 0>>
  ELSE LET g == Gcd(Abs(n), Abs(d))
       IN <<Sign(d) * Sign(n) * (Abs(n) \div g), Abs(d) \div g>>

IsNaN(x) == x = <<0, 0>>
IsFinite(x) == x[2] # 0

\* a op b on numbers, op one of + - * / %
Arith(op, a, b) ==
  IF IsNaN(a) \/ IsNaN(b) THEN <<0, 0>>
  ELSE CASE op = "+" ->
              IF IsFinite(a) /\ IsFinite(b) THEN Ratio(a[1] * b[2] + b[1] * a[2], a[2] * b[2])
              ELSE IF IsFinite(a) THEN b
              ELSE IF IsFinite(b) \/ a = b THEN a
              ELSE <<0, 0>>
         [] op = "-" ->
              IF IsFinite(a) /\ IsFinite(b) THEN Ratio(a[1] * b[2] - b[1] * a[2], a[2] * b[2])
              ELSE IF IsFinite(a) THEN <<-b[1], 0>>
              ELSE IF IsFinite(b) \/ a # b THEN a
              ELSE <<0, 0>>
         [] op = "*" ->
              IF IsFinite(a) /\ IsFinite(b) THEN Ratio(a[1] * b[1], a[2] * b[2])
              ELSE <<Sign(a[1]) * Sign(b[1]), 0>>
         [] op = "/" ->
              IF IsFinite(a) /\ IsFinite(b)
              THEN (IF b[1] = 0 THEN <<Sign(a[1]), 0>> ELSE Ratio(a[1] * b[2], a[2] * b[1]))
              ELSE IF IsFinite(a) THEN <<0, 1>>
              ELSE IF IsFinite(b) THEN <<a[1] * (IF b[1] < 0 THEN -1 ELSE 1), 0>>
              ELSE <<0, 0>>
         [] op = "%" ->
              IF ~IsFinite(a) \/ b[1] = 0 THEN <<0, 0>>
              ELSE IF ~IsFinite(b) THEN a
              ELSE LET num == a[1] * b[2]
                       den == a[2] * b[1]
                       q == Sign(num) * Sign(den) * (Abs(num) \div Abs(den))
                   IN Ratio(a[1] * b[2] - b[1] * q * a[2], a[2] * b[2])
         [] OTHER -> <<0, 0>>

\* a < b on numbers (false when either is NaN)
NumLess(a, b) ==
  /\ ~IsNaN(a) /\ ~IsNaN(b)
  /\ IF IsFinite(a) /\ IsFinite(b) THEN a[1] * b[2] < b[1] * a[2]
     ELSE IF IsFinite(a) THEN b[1] > 0
     ELSE IF IsFinite(b) THEN a[1] < 0
     ELSE a[1] < b[1]

RECURSIVE NatStr(_)
NatStr(n) == IF n < 10 THEN <<Digits[n + 1]>> ELSE NatStr(n \div 10) \o <<Digits[(n % 10) + 1]>>

RECURSIVE FracStr(_, _, _)
FracStr(r, d, k) ==
  IF r = 0 \/ k = 0 THEN <<>>
  ELSE <<Digits[((r * 10) \div d) + 1]>> \o FracStr((r * 10) % d, d, k - 1)

\* String(x) of a number. Fractions print their decimal expansion, exact when it
\* terminates within 17 digits (the only fractions the inputs here produce).
NumStr(x) ==
  IF x[2] = 0 THEN (IF x[1] = 0 THEN <<"N","a","N">> ELSE IF x[1] > 0 THEN <<"I","n","f","i","n","i","t","y">> ELSE <<"-","I","n","f","i","n","i","t","y">>)
  ELSE LET a == Abs(x[1])
           whole == NatStr(a \div x[2])
           frac == FracStr(a % x[2], x[2], 17)
       IN (IF x[1] < 0 THEN <<"-">> ELSE <<>>) \o whole \o (IF frac = <<>> THEN <<>> ELSE <<".">> \o frac)

RECURSIVE DigitsVal(_)
DigitsVal(s) == IF s = <<>> THEN 0 ELSE DigitsVal(SubSeq(s, 1, Len(s) - 1)) * 10 + (IndexIn(s[Len(s)], Digits) - 1)

RECURSIVE Pow10(_)
Pow10(k) == IF k = 0 THEN 1 ELSE 10 * Pow10(k - 1)

AllDigits(s) == \A k \in 1..Len(s) : IsDigit(s[k])

\* Number(s) of a string: whitespace trimmed, "" is 0, an optional sign, then
\* Infinity or a decimal literal; anything else is NaN. (Hexadecimal and
\* exponent literals do not occur in the strings modelled here.)
StrNum(s) ==
  With([t \in {Trim(s)} |->
    IF t = <<>> THEN <<0, 1>>
    ELSE With([sg \in {IF t[1] = "-" THEN -1 ELSE 1},
               body \in {IF t[1] \in {"+", "-"} THEN Tail(t) ELSE t} |->
      IF body = <<"I","n","f","i","n","i","t","y">> THEN <<sg, 0>>
      ELSE With([dot \in {IndexOf(body, <<".">>)} |->
        With([ip \in {IF dot = -1 THEN body ELSE Slice(body, 0, dot)},
              fp \in {IF dot = -1 THEN <<>> ELSE SliceFrom(body, dot + 1)} |->
          IF AllDigits(ip) /\ AllDigits(fp) /\ (ip # <<>> \/ fp # <<>>)
          THEN Ratio(sg * (DigitsVal(ip) * Pow10(Len(fp)) + DigitsVal(fp)), Pow10(Len(fp)))
          ELSE <<0, 0>>])])])])

----------------------------------------------------------------------------
(* TemplateValue, Map and JSON *)

Undef == [t |-> "undef", v |-> 0]
Null == [t |-> "null", v |-> 0]
Bool(b) == [t |-> "bool", v |-> b]
NumV(x) == [t |-> "num", v |-> x]
IntV(n) == [t |-> "num", v |-> <<n, 1>>]
Str(s) == [t |-> "str", v |-> s]
Arr(a) == [t |-> "arr", v |-> a]
Obj(o) == [t |-> "obj", v |-> o]

\* value == null
IsNullish(x) == x.t \in {"undef", "null"}

\* Map.has / Map.get / Map.set / Array.from(Map.keys()) on a sequence of pairs;
\* MapGet also reads an own property of a plain object
MapHas(m, k) == \E i \in 1..Len(m) : m[i][1] = k
MapGet(m, k) == IF MapHas(m, k) THEN m[CHOOSE i \in 1..Len(m) : m[i][1] = k][2] ELSE Undef
MapSet(m, k, x) ==
  IF MapHas(m, k) THEN [i \in 1..Len(m) |-> IF m[i][1] = k THEN <<k, x>> ELSE m[i]]
  ELSE Append(m, <<k, x>>)
MapKeys(m) == [i \in 1..Len(m) |-> m[i][1]]

\* array[index] for a numeric index: undefined unless 0 <= index < length
ArrayAt(a, x) ==
  IF x[2] = 1 /\ x[1] >= 0 /\ x[1] < Len(a) THEN a[x[1] + 1] ELSE Undef

\* parseInt(s): leading whitespace, an optional sign, the longest run of digits
ParseInt(s) ==
  With([keep \in {{k \in 1..Len(s) : ~IsSpace(s[k])}} |->
    With([t \in {IF keep = {} THEN <<>> ELSE SubSeq(s, SetMin(keep), Len(s))} |->
      With([sg \in {IF t # <<>> /\ t[1] = "-" THEN -1 ELSE 1},
            body \in {IF t # <<>> /\ t[1] \in {"+", "-"} THEN Tail(t) ELSE t} |->
        With([run \in {SubSeq(body, 1, SetMin({k \in 1..(Len(body) + 1) :
                                                 k > Len(body) \/ ~IsDigit(body[k])}) - 1)} |->
          IF run = <<>> THEN <<0, 0>> ELSE <<sg * DigitsVal(run), 1>>])])])])

\* s[i], "" past the end
At(s, i) == IF i >= 0 /\ i < Len(s) THEN s[i + 1] ELSE ""

JsonFail == [ok |-> FALSE, v |-> Undef, i |-> 0]

JsonSkip(s, i) ==
  LET rest == {j \in i..(Len(s) - 1) : s[j + 1] \notin {" ", "\t", "\n", "\r"}}
  IN IF rest = {} THEN (IF i > Len(s) THEN i ELSE Len(s)) ELSE SetMin(rest)

\* a JSON string body from i (just after the opening quote) to its closing quote.
\* Escapes \" \\ \/ \n \t \r are decoded (the others do not occur here).
RECURSIVE JsonString(_, _, _)
JsonString(s, i, acc) ==
  LET c == At(s, i)
      e == At(s, i + 1)
  IN IF c = "" \/ c \in {"\n", "\t", "\r"} THEN JsonFail
     ELSE IF c = "\"" THEN [ok |-> TRUE, v |-> Str(acc), i |-> i + 1]
     ELSE IF c = "\\"
          THEN IF e \in {"\"", "\\", "/"} THEN JsonString(s, i + 2, Append(acc, e))
               ELSE IF e = "n" THEN JsonString(s, i + 2, Append(acc, "\n"))
               ELSE IF e = "t" THEN JsonString(s, i + 2, Append(acc, "\t"))
               ELSE IF e = "r" THEN JsonString(s, i + 2, Append(acc, "\r"))
               ELSE JsonFail
     ELSE JsonString(s, i + 1, Append(acc, c))

\* a JSON number at i: -? int (. digits)?  (no exponent here)
JsonNumber(s, i) ==
  LET DigitsEnd(a) == SetMin({j \in a..Len(s) : ~IsDigit(At(s, j))})
      neg == At(s, i) = "-"
  IN With([a \in {IF neg THEN i + 1 ELSE i} |->
       With([b \in {DigitsEnd(a)} |->
         With([c \in {IF At(s, b) = "." THEN DigitsEnd(b + 1) ELSE b} |->
           With([ip \in {Slice(s, a, b)}, fp \in {Slice(s, b + 1, c)} |->
             IF ip = <<>> \/ (Len(ip) > 1 /\ ip[1] = "0") \/ (At(s, b) = "." /\ fp = <<>>)
             THEN JsonFail
             ELSE [ok |-> TRUE,
                   v |-> NumV(Ratio((IF neg THEN -1 ELSE 1) * (DigitsVal(ip) * Pow10(Len(fp)) + DigitsVal(fp)),
                                    Pow10(Len(fp)))),
                   i |-> c]])])])])

RECURSIVE JsonValue(_, _), JsonItems(_, _, _, _, _)
JsonValue(s, i0) ==
  With([i \in {JsonSkip(s, i0)} |->
    With([c \in {At(s, i)} |->
      IF c = "{" THEN JsonItems(s, i + 1, <<>>, "obj", TRUE)
      ELSE IF c = "[" THEN JsonItems(s, i + 1, <<>>, "arr", TRUE)
      ELSE IF c = "\"" THEN JsonString(s, i + 1, <<>>)
      ELSE IF c = "-" \/ IsDigit(c) THEN JsonNumber(s, i)
      ELSE IF StartsWithAt(s, <<"t","r","u","e">>, i) THEN [ok |-> TRUE, v |-> Bool(TRUE), i |-> i + 4]
      ELSE IF StartsWithAt(s, <<"f","a","l","s","e">>, i) THEN [ok |-> TRUE, v |-> Bool(FALSE), i |-> i + 5]
      ELSE IF StartsWithAt(s, <<"n","u","l","l">>, i) THEN [ok |-> TRUE, v |-> Null, i |-> i + 4]
      ELSE JsonFail])])

\* the elements of an array or the members of an object, from i to the closer
JsonItems(s, i0, acc, kind, first) ==
  LET close == IF kind = "obj" THEN "}" ELSE "]"
  IN With([i \in {JsonSkip(s, i0)} |->
       IF first /\ At(s, i) = close
       THEN [ok |-> TRUE, v |-> [t |-> kind, v |-> acc], i |-> i + 1]
       ELSE With([key \in {IF kind = "obj" /\ At(s, i) = "\"" THEN JsonString(s, i + 1, <<>>)
                           ELSE JsonFail} |->
         With([colon \in {JsonSkip(s, key.i)} |->
           With([val \in {IF kind = "obj" /\ ~(key.ok /\ At(s, colon) = ":") THEN JsonFail
                          ELSE JsonValue(s, IF kind = "arr" THEN i ELSE colon + 1)} |->
             IF ~val.ok THEN JsonFail
             ELSE With([j \in {JsonSkip(s, val.i)},
                        acc2 \in {IF kind = "arr" THEN Append(acc, val.v)
                                  ELSE MapSet(acc, key.v.v, val.v)} |->
               IF At(s, j) = "," THEN JsonItems(s, j + 1, acc2, kind, FALSE)
               ELSE IF At(s, j) = close THEN [ok |-> TRUE, v |-> [t |-> kind, v |-> acc2], i |-> j + 1]
               ELSE JsonFail])])])])])

\* JSON.parse(s): ok = FALSE when it throws
JsonParse(s) ==
  With([r \in {JsonValue(s, 0)} |-> IF r.ok /\ JsonSkip(s, r.i) = Len(s) THEN r ELSE JsonFail])

\* the JSON text of a string: quoted, with " \ and the control characters escaped
JsonQuote(s) ==
  LET esc(c) == IF c = "\"" THEN <<"\\","\"">> ELSE IF c = "\\" THEN <<"\\","\\">>
                ELSE IF c = "\n" THEN <<"\\","n">> ELSE IF c = "\t" THEN <<"\\","t">>
                ELSE IF c = "\r" THEN <<"\\","r">> ELSE <<c>>
  IN <<"\"">> \o Join([k \in 1..Len(s) |-> esc(s[k])], <<>>) \o <<"\"">>

\* JSON.stringify(x) of a value that is not undefined
RECURSIVE JsonText(_)
JsonText(x) ==
  CASE x.t = "str" -> JsonQuote(x.v)
    [] x.t = "num" -> IF IsFinite(x.v) THEN NumStr(x.v) ELSE <<"n","u","l","l">>
    [] x.t = "bool" -> IF x.v THEN <<"t","r","u","e">> ELSE <<"f","a","l","s","e">>
    [] x.t = "arr" ->
         <<"[">> \o Join([k \in 1..Len(x.v) |-> IF x.v[k].t = "undef" THEN <<"n","u","l","l">> ELSE JsonText(x.v[k])], <<",">>) \o <<"]">>
    [] x.t = "obj" ->
         LET kept == SelectSeq(x.v, LAMBDA p : p[2].t # "undef")
         IN <<"{">> \o Join([k \in 1..Len(kept) |-> JsonQuote(kept[k][1]) \o <<":">> \o JsonText(kept[k][2])], <<",">>) \o <<"}">>
    [] OTHER -> <<"n","u","l","l">>

\* String(x)
RECURSIVE JsString(_)
JsString(x) ==
  CASE x.t = "str" -> x.v
    [] x.t = "num" -> NumStr(x.v)
    [] x.t = "bool" -> IF x.v THEN <<"t","r","u","e">> ELSE <<"f","a","l","s","e">>
    [] x.t = "null" -> <<"n","u","l","l">>
    [] x.t = "undef" -> <<"u","n","d","e","f","i","n","e","d">>
    [] x.t = "arr" -> Join([k \in 1..Len(x.v) |-> IF IsNullish(x.v[k]) THEN <<>> ELSE JsString(x.v[k])], <<",">>)
    [] OTHER -> <<"[","o","b","j","e","c","t"," ","O","b","j","e","c","t","]">>

----------------------------------------------------------------------------
(* coercion.ts: a null result is the value Null *)

tryCoerceToNumber(value) ==
  CASE IsNullish(value) -> Null
    [] value.t = "num" -> IF IsNaN(value.v) THEN Null ELSE value
    [] value.t = "bool" -> IF value.v THEN IntV(1) ELSE IntV(0)
    [] value.t = "str" ->
         With([trimmed \in {Trim(value.v)} |->
           IF trimmed = <<>> THEN Null
           ELSE With([parsed \in {StrNum(trimmed)} |-> IF IsNaN(parsed) THEN Null ELSE NumV(parsed)])])
    [] OTHER -> Null

\* s.replace(/a\s*b/g, r) for single characters a, b, r
RECURSIVE ReplaceGap(_, _, _, _)
ReplaceGap(s, a, b, r) ==
  IF s = <<>> THEN <<>>
  ELSE LET stop == {k \in 2..Len(s) : ~IsSpace(s[k])}
           j == IF stop = {} THEN 0 ELSE SetMin(stop)
       IN IF s[1] = a /\ j # 0 /\ s[j] = b
          THEN <<r>> \o ReplaceGap(SubSeq(s, j + 1, Len(s)), a, b, r)
          ELSE <<s[1]>> \o ReplaceGap(Tail(s), a, b, r)

\* s.replace(/L,+/g, L), s.replace(/,+T/g, T) and s.replace(/,+/g, ","):
\* lead = L, trail = T, "" for the side the pattern leaves out
RECURSIVE ReplaceCommas(_, _, _)
ReplaceCommas(s, lead, trail) ==
  IF s = <<>> THEN <<>>
  ELSE LET start == IF lead = "" THEN 1 ELSE 2
           e == SetMin({k \in start..(Len(s) + 1) : At(s, k - 1) # ","})
           matches == /\ lead = "" \/ s[1] = lead
                      /\ e > start
                      /\ trail = "" \/ At(s, e - 1) = trail
           consumed == IF trail = "" THEN e - 1 ELSE e
           out == IF lead # "" THEN lead ELSE IF trail # "" THEN trail ELSE ","
       IN IF matches
          THEN <<out>> \o ReplaceCommas(SubSeq(s, consumed + 1, Len(s)), lead, trail)
          ELSE <<s[1]>> \o ReplaceCommas(Tail(s), lead, trail)

\* the CSV loop of tryCommaSeparated
RECURSIVE CsvSplit(_, _, _, _, _)
CsvSplit(content, i, current, inQuotes, result) ==
  LET commit == IF Trim(current) # <<>> THEN Append(result, Str(Trim(current))) ELSE result
  IN IF i >= Len(content) THEN commit
     ELSE IF content[i + 1] = "\"" THEN CsvSplit(content, i + 1, current, ~inQuotes, result)
     ELSE IF content[i + 1] = "," /\ ~inQuotes THEN CsvSplit(content, i + 1, <<>>, inQuotes, commit)
     ELSE CsvSplit(content, i + 1, Append(current, content[i + 1]), inQuotes, result)

tryCommaSeparated(value) ==
  With([t \in {Trim(value)} |->
    With([opens \in {StartsWith(t, <<"[">>) \/ StartsWith(t, <<"{">>)},
          closes \in {EndsWith(t, <<"]">>) \/ EndsWith(t, <<"}">>)} |->
      With([content \in {Trim(IF opens /\ closes THEN Slice(t, 1, -1)
                              ELSE IF opens THEN SliceFrom(t, 1)
                              ELSE IF closes THEN Slice(t, 0, -1)
                              ELSE t)} |->
        IF ~Includes(content, <<",">>) THEN (IF content # <<>> THEN Arr(<<Str(content)>>) ELSE Null)
        ELSE With([result \in {CsvSplit(content, 0, <<>>, FALSE, <<>>)} |->
               IF Len(result) > 0 THEN Arr(result) ELSE Null])])])])

\* a tryCoerceToArray that takes no comma off the text it parses
tryCoerceToArrayStrict(value) ==
  CASE value.t = "arr" -> value
    [] IsNullish(value) -> Null
    [] value.t = "str" ->
         With([trimmed \in {Trim(value.v)} |->
           With([parsed \in {IF StartsWith(trimmed, <<"[">>) /\ EndsWith(trimmed, <<"]">>)
                             THEN JsonParse(trimmed)
                             ELSE JsonFail} |->
             IF parsed.ok THEN (IF parsed.v.t = "arr" THEN parsed.v ELSE Null)
             ELSE IF ~StartsWith(trimmed, <<"[">>) /\ StartsWith(trimmed, <<"{">>) THEN Null
             ELSE tryCommaSeparated(value.v)])])
    [] value.t = "obj" -> Null
    [] OTHER -> Arr(<<value>>)

tryCoerceToArray(value) ==
  CASE value.t = "arr" -> value
    [] IsNullish(value) -> Null
    [] value.t = "str" ->
         With([trimmed \in {Trim(value.v)} |->
           With([parsed \in {IF StartsWith(trimmed, <<"[">>) /\ EndsWith(trimmed, <<"]">>)
                             THEN JsonParse(ReplaceGap(ReplaceGap(trimmed, ",", "]", "]"), "[", ",", "["))
                             ELSE JsonFail} |->
             IF parsed.ok THEN (IF parsed.v.t = "arr" THEN parsed.v ELSE Null)
             ELSE IF ~StartsWith(trimmed, <<"[">>) /\ StartsWith(trimmed, <<"{">>) THEN Null
             ELSE tryCommaSeparated(value.v)])])
    [] value.t = "obj" -> Null
    [] OTHER -> Arr(<<value>>)

tryCoerceToObject(value) ==
  CASE IsNullish(value) -> Null
    [] value.t = "obj" -> value
    [] value.t = "str" ->
         With([trimmed \in {Trim(value.v)} |->
           IF StartsWith(trimmed, <<"{">>) /\ EndsWith(trimmed, <<"}">>)
           THEN With([parsed \in {JsonParse(ReplaceCommas(ReplaceCommas(ReplaceCommas(ReplaceCommas(
                                    ReplaceCommas(trimmed, "{", ""), "", "}"), "[", ""), "", "]"), "", ""))} |->
                  IF parsed.ok /\ parsed.v.t \in {"obj", "null"} THEN parsed.v ELSE Null])
           ELSE Null])
    [] OTHER -> Null

tryCoerceToString(value) ==
  CASE IsNullish(value) -> Null
    [] value.t = "str" -> value
    [] value.t \in {"num", "bool"} -> Str(JsString(value))
    [] OTHER -> Str(JsonText(value))

tryCoerceToBoolean(value) ==
  CASE IsNullish(value) -> Null
    [] value.t = "bool" -> value
    [] value.t = "num" ->
         IF value.v = <<1, 1>> THEN Bool(TRUE) ELSE IF value.v = <<0, 1>> THEN Bool(FALSE) ELSE Null
    [] value.t = "str" ->
         LET trimmed == ToLower(Trim(value.v))
         IN IF trimmed \in {<<"t","r","u","e">>, <<"y","e","s">>, <<"1">>} THEN Bool(TRUE)
            ELSE IF trimmed \in {<<"f","a","l","s","e">>, <<"n","o">>, <<"0">>} THEN Bool(FALSE)
            ELSE Null
    [] OTHER -> Null

----------------------------------------------------------------------------
(* expressions.ts *)

isTruthy(value) ==
  CASE IsNullish(value) -> FALSE
    [] value.t = "str" -> ToLower(Trim(value.v)) \notin {<<>>, <<"f","a","l","s","e">>, <<"0">>, <<"n","o">>}
    [] value.t = "num" -> value.v # <<0, 1>>
    [] value.t = "bool" -> value.v
    [] OTHER -> Len(value.v) > 0

\* the hops of a dotted path after its root, as resolveValue (nested = FALSE:
\* JSON.parse of a string, Number() of an array index) and as
\* Interpreter.resolveNestedPath (nested = TRUE: tryCoerceToObject, parseInt)
\* make them. Own properties only: the inherited members of Object.prototype
\* are not modelled.
RECURSIVE ResolveHops(_, _, _, _)
ResolveHops(current, path, i, nested) ==
  IF i > Len(path) THEN current
  ELSE IF IsNullish(current) THEN Null
  ELSE With([parsed \in {IF current.t # "str" THEN current
                         ELSE IF nested THEN tryCoerceToObject(current)
                         ELSE With([json \in {JsonParse(current.v)} |->
                                IF json.ok THEN json.v ELSE Null])} |->
         IF parsed.t = "obj" THEN ResolveHops(MapGet(parsed.v, path[i]), path, i + 1, nested)
         ELSE IF parsed.t = "arr"
         THEN ResolveHops(ArrayAt(parsed.v, IF nested THEN ParseInt(path[i]) ELSE StrNum(path[i])),
                          path, i + 1, nested)
         ELSE Null])

\* /^-?\d+(\.\d+)?$/
IsNumericLiteral(s) ==
  With([body \in {IF s # <<>> /\ s[1] = "-" THEN Tail(s) ELSE s} |->
    With([dot \in {IndexOf(body, <<".">>)} |->
      With([ip \in {IF dot = -1 THEN body ELSE Slice(body, 0, dot)},
            fp \in {SliceFrom(body, dot + 1)} |->
        ip # <<>> /\ AllDigits(ip) /\ (dot = -1 \/ (fp # <<>> /\ AllDigits(fp)))])])])

resolveValue(expr0, variables_) ==
  IF expr0 = <<>> THEN Null
  ELSE With([expr \in {Trim(expr0)} |->
         IF expr = <<"t","r","u","e">> THEN Bool(TRUE)
         ELSE IF expr = <<"f","a","l","s","e">> THEN Bool(FALSE)
         ELSE IF expr = <<"n","u","l","l">> THEN Null
         ELSE IF IsNumericLiteral(expr) THEN NumV(StrNum(expr))
         ELSE With([first \in {At(expr, 0)}, last \in {At(expr, Len(expr) - 1)} |->
                IF (first = "\"" /\ last = "\"") \/ (first = "'" /\ last = "'")
                THEN (IF Len(expr) = 1 THEN Str(expr) ELSE Str(Slice(expr, 1, Len(expr) - 1)))
                ELSE With([path \in {Split(expr, <<".">>)} |->
                       ResolveHops(MapGet(variables_, path[1]), path, 2, FALSE)])])])

\* depth after the first k characters: "(" seen minus ")" seen
ParenDepth(str, k) ==
  Cardinality({j \in 1..k : str[j] = "("}) - Cardinality({j \in 1..k : str[j] = ")"})

isBalancedParens(str) ==
  /\ \A k \in 1..Len(str) : ParenDepth(str, k) >= 0
  /\ ParenDepth(str, Len(str)) = 0

\* the first operator of tryEvaluateComparison met outside quotes, scanning from i;
\* quoteChar is "" outside quotes
RECURSIVE FindComparison(_, _, _)
FindComparison(expr, i, quoteChar) ==
  LET operators == <<<<"=","=">>, <<"!","=">>, <<">","=">>, <<"<","=">>, <<">">>, <<"<">>>>
      found == {n \in 1..6 : StartsWithAt(expr, operators[n], i)}
      char == At(expr, i)
      escaped == i > 0 /\ At(expr, i - 1) = "\\"
      next == IF char \in {"\"", "'"} /\ ~escaped
              THEN (IF quoteChar = "" THEN char ELSE IF char = quoteChar THEN "" ELSE quoteChar)
              ELSE quoteChar
  IN IF i >= Len(expr) THEN [i |-> -1, op |-> <<>>]
     ELSE IF quoteChar = "" /\ found # {} THEN [i |-> i, op |-> operators[SetMin(found)]]
     ELSE FindComparison(expr, i + 1, next)

\* evaluateNumericComparison without its guard: an operand that is not a number
\* makes the comparison false instead of raising the TypeError
evaluateNumericComparisonUnguarded(left, right, op) ==
  LET leftNum == tryCoerceToNumber(left)
      rightNum == tryCoerceToNumber(right)
  IN IF leftNum = Null \/ rightNum = Null THEN [err |-> FALSE, val |-> FALSE]
     ELSE [err |-> FALSE,
           val |-> CASE op = <<">">> -> NumLess(rightNum.v, leftNum.v)
                     [] op = <<"<">> -> NumLess(leftNum.v, rightNum.v)
                     [] op = <<">","=">> -> ~NumLess(leftNum.v, rightNum.v)
                     [] OTHER -> ~NumLess(rightNum.v, leftNum.v)]

\* err = TRUE: the TypeError of evaluateNumericComparison
evaluateNumericComparison(left, right, op) ==
  With([leftNum \in {tryCoerceToNumber(left)}, rightNum \in {tryCoerceToNumber(right)} |->
    IF leftNum = Null \/ rightNum = Null THEN [err |-> TRUE, val |-> FALSE]
    ELSE [err |-> FALSE,
          val |-> CASE op = <<">">> -> NumLess(rightNum.v, leftNum.v)
                    [] op = <<"<">> -> NumLess(leftNum.v, rightNum.v)
                    [] op = <<">","=">> -> ~NumLess(leftNum.v, rightNum.v)
                    [] op = <<"<","=">> -> ~NumLess(rightNum.v, leftNum.v)
                    [] OTHER -> FALSE]])

\* expr.match(new RegExp(`(.+?)\\s+${op}\\s+(.+)`, "i")) and, with atEnd,
\* expr.match(new RegExp(`(.+?)\\s+${op}$`, "i")), on a trimmed expr
MatchOperator(expr, op, atEnd) ==
  LET n == Len(expr)
      isLine(c) == c \in {"\n", "\r"}
      spaceEnd(k) == SetMin({j \in k..n : ~IsSpace(At(expr, j))})
      ok(a, k) ==
        /\ IsSpace(At(expr, k))
        /\ \A j \in a..(k - 1) : ~isLine(At(expr, j))
        /\ With([e \in {spaceEnd(k)} |->
             /\ ToLower(Slice(expr, e, e + Len(op))) = ToLower(op)
             /\ IF atEnd THEN e + Len(op) = n
                ELSE /\ IsSpace(At(expr, e + Len(op)))
                     /\ With([m \in {spaceEnd(e + Len(op))} |-> m < n /\ ~isLine(At(expr, m))])])
  IN With([hits \in {{p \in (0..(n - 1)) \X (1..(n - 1)) : p[1] < p[2] /\ ok(p[1], p[2])}} |->
       IF hits = {} THEN [hit |-> FALSE, left |-> <<>>, right |-> <<>>]
       ELSE With([a0 \in {SetMin({p[1] : p \in hits})} |->
              With([k0 \in {SetMin({p[2] : p \in {q \in hits : q[1] = a0}})} |->
                [hit |-> TRUE, left |-> Slice(expr, a0, k0),
                 right |-> IF atEnd THEN <<>>
                           ELSE With([m \in {spaceEnd(spaceEnd(k0) + Len(op))} |->
                                  Slice(expr, m, SetMin({j \in m..n : j = n \/ isLine(At(expr, j))}))])]])])])

tryEvaluateStringOp(expr, variables_) ==
  LET operators == <<<<"c","o","n","t","a","i","n","s">>, <<"s","t","a","r","t","s","W","i","t","h">>, <<"e","n","d","s","W","i","t","h">>>>
  IN With([matches \in {[n \in 1..3 |-> MatchOperator(expr, operators[n], FALSE)]} |->
       With([found \in {{n \in 1..3 : matches[n].hit}} |->
         IF found = {} THEN [hit |-> FALSE, val |-> FALSE]
         ELSE With([op \in {operators[SetMin(found)]}, match \in {matches[SetMin(found)]} |->
                With([leftStr \in {tryCoerceToString(resolveValue(Trim(match.left), variables_))},
                      rightValue \in {StripQuotes(Trim(match.right))} |->
                  IF leftStr = Null THEN [hit |-> TRUE, val |-> FALSE]
                  ELSE [hit |-> TRUE,
                        val |-> CASE op = <<"c","o","n","t","a","i","n","s">> -> Includes(leftStr.v, rightValue)
                                  [] op = <<"s","t","a","r","t","s","W","i","t","h">> -> StartsWith(leftStr.v, rightValue)
                                  [] OTHER -> EndsWith(leftStr.v, rightValue)]])])])])

tryEvaluateTypeCheck(expr, variables_) ==
  LET checks == <<<<"i","s","E","m","p","t","y">>, <<"i","s","N","o","t","E","m","p","t","y">>, <<"i","s","A","r","r","a","y">>, <<"i","s","N","u","m","b","e","r">>, <<"i","s","O","b","j","e","c","t">>, <<"i","s","B","o","o","l","e","a","n">>>>
  IN With([matches \in {[n \in 1..6 |-> MatchOperator(expr, checks[n], TRUE)]} |->
       With([found \in {{n \in 1..6 : matches[n].hit}} |->
         IF found = {} THEN [hit |-> FALSE, val |-> FALSE]
         ELSE With([check \in {checks[SetMin(found)]},
                    value \in {resolveValue(Trim(matches[SetMin(found)].left), variables_)} |->
                With([empty \in {CASE IsNullish(value) -> TRUE
                                   [] value.t = "str" -> Trim(value.v) = <<>>
                                   [] value.t \in {"arr", "obj"} -> Len(value.v) = 0
                                   [] OTHER -> FALSE} |->
                  [hit |-> TRUE,
                   val |-> CASE check = <<"i","s","E","m","p","t","y">> -> empty
                             [] check = <<"i","s","N","o","t","E","m","p","t","y">> -> ~empty
                             [] check = <<"i","s","A","r","r","a","y">> -> tryCoerceToArray(value) # Null
                             [] check = <<"i","s","N","u","m","b","e","r">> -> tryCoerceToNumber(value) # Null
                             [] check = <<"i","s","O","b","j","e","c","t">> -> tryCoerceToObject(value) # Null
                             [] OTHER -> tryCoerceToBoolean(value) # Null]])])])])

tryEvaluateComparison(expr, variables_) ==
  With([at \in {FindComparison(expr, 0, "")} |->
    IF at.i = -1 THEN [hit |-> FALSE, err |-> FALSE, val |-> FALSE]
    ELSE With([sides \in {[k \in 1..2 |->
                             resolveValue(Trim(IF k = 1 THEN Slice(expr, 0, at.i)
                                               ELSE SliceFrom(expr, at.i + Len(at.op))), variables_)]} |->
           IF at.op \in {<<"=","=">>, <<"!","=">>}
           THEN [hit |-> TRUE, err |-> FALSE,
                 val |-> (JsString(sides[1]) = JsString(sides[2])) = (at.op = <<"=","=">>)]
           ELSE With([numeric \in {evaluateNumericComparison(sides[1], sides[2], at.op)} |->
                  [hit |-> TRUE, err |-> numeric.err, val |-> numeric.val]])])])

----------------------------------------------------------------------------
(* expressions.ts: conditions *)

\* evaluateCondition returns [err, val, log]: err = TRUE when it throws the
\* TypeError, val its boolean result, log the trimmed text of every condition
\* evaluated, in the order the calls were made.
RECURSIVE evaluateCondition(_, _), tryEvaluateLogical(_, _)

\* tryEvaluateLogical with both operands evaluated before they are combined
tryEvaluateLogicalEager(expr, variables_) ==
  LET at(op) == {i \in 0..(Len(expr) - 4) : ParenDepth(expr, i + 1) = 0 /\ Slice(expr, i, i + Len(op)) = op}
      orPos == IF at(<<" ","O","R"," ">>) = {} THEN -1 ELSE SetMax(at(<<" ","O","R"," ">>))
      andPos == IF at(<<" ","A","N","D"," ">>) = {} THEN -1 ELSE SetMax(at(<<" ","A","N","D"," ">>))
      isOr == orPos # -1
      cut == IF isOr THEN orPos ELSE andPos
      left == evaluateCondition(Trim(Slice(expr, 0, cut)), variables_)
      right == evaluateCondition(Trim(SliceFrom(expr, cut + (IF isOr THEN 4 ELSE 5))), variables_)
  IN IF orPos = -1 /\ andPos = -1 THEN [hit |-> FALSE, err |-> FALSE, val |-> FALSE, log |-> <<>>]
     ELSE [hit |-> TRUE, err |-> left.err \/ right.err,
           val |-> ~left.err /\ ~right.err /\ (IF isOr THEN left.val \/ right.val ELSE left.val /\ right.val),
           log |-> left.log \o right.log]

\* tryEvaluateLogical splitting on the rightmost AND before looking for an OR
tryEvaluateLogicalAndFirst(expr, variables_) ==
  LET at(op) == {i \in 0..(Len(expr) - 4) : ParenDepth(expr, i + 1) = 0 /\ Slice(expr, i, i + Len(op)) = op}
      orPos == IF at(<<" ","O","R"," ">>) = {} THEN -1 ELSE SetMax(at(<<" ","O","R"," ">>))
      andPos == IF at(<<" ","A","N","D"," ">>) = {} THEN -1 ELSE SetMax(at(<<" ","A","N","D"," ">>))
      isOr == andPos = -1
      cut == IF isOr THEN orPos ELSE andPos
      left == evaluateCondition(Trim(Slice(expr, 0, cut)), variables_)
      right == evaluateCondition(Trim(SliceFrom(expr, cut + (IF isOr THEN 4 ELSE 5))), variables_)
  IN IF orPos = -1 /\ andPos = -1 THEN [hit |-> FALSE, err |-> FALSE, val |-> FALSE, log |-> <<>>]
     ELSE IF left.err \/ left.val = isOr
          THEN [hit |-> TRUE, err |-> left.err, val |-> left.val, log |-> left.log]
     ELSE [hit |-> TRUE, err |-> right.err, val |-> right.val, log |-> left.log \o right.log]

tryEvaluateLogical(expr, variables_) ==
  LET at(op) == {i \in 0..(Len(expr) - 4) : ParenDepth(expr, i + 1) = 0 /\ Slice(expr, i, i + Len(op)) = op}
  IN With([ors \in {at(<<" ","O","R"," ">>)}, ands \in {at(<<" ","A","N","D"," ">>)} |->
       IF ors = {} /\ ands = {} THEN [hit |-> FALSE, err |-> FALSE, val |-> FALSE, log |-> <<>>]
       ELSE With([isOr \in {ors # {}}, cut \in {IF ors # {} THEN SetMax(ors) ELSE SetMax(ands)} |->
              With([left \in {evaluateCondition(Trim(Slice(expr, 0, cut)), variables_)} |->
                IF left.err \/ left.val = isOr
                THEN [hit |-> TRUE, err |-> left.err, val |-> left.val, log |-> left.log]
                ELSE With([right \in {evaluateCondition(Trim(SliceFrom(expr, cut + (IF isOr THEN 4 ELSE 5))),
                                                        variables_)} |->
                       [hit |-> TRUE, err |-> right.err, val |-> right.val,
                        log |-> left.log \o right.log]])])])])

evaluateCondition(condition, variables_) ==
  With([trimmed \in {Trim(condition)} |->
    LET wrapped(open) == /\ StartsWith(trimmed, open) /\ EndsWith(trimmed, <<")">>)
                         /\ isBalancedParens(Slice(trimmed, Len(open), -1))
        leaf(err, val) == [err |-> err, val |-> val, log |-> <<trimmed>>]
    IN IF wrapped(<<"N","O","T","(">>)
       THEN With([negated \in {evaluateCondition(Slice(trimmed, 4, -1), variables_)} |->
              [err |-> negated.err, val |-> ~negated.err /\ ~negated.val,
               log |-> <<trimmed>> \o negated.log]])
       ELSE IF wrapped(<<"(">>)
       THEN With([result \in {evaluateCondition(Slice(trimmed, 1, -1), variables_)} |->
              [err |-> result.err, val |-> result.val, log |-> <<trimmed>> \o result.log]])
       ELSE With([logicalResult \in {tryEvaluateLogical(trimmed, variables_)} |->
         IF logicalResult.hit
         THEN [err |-> logicalResult.err, val |-> logicalResult.val,
               log |-> <<trimmed>> \o logicalResult.log]
         ELSE With([comparisonResult \in {tryEvaluateComparison(trimmed, variables_)} |->
           IF comparisonResult.hit THEN leaf(comparisonResult.err, comparisonResult.val)
           ELSE With([stringResult \in {tryEvaluateStringOp(trimmed, variables_)} |->
             IF stringResult.hit THEN leaf(FALSE, stringResult.val)
             ELSE With([typeResult \in {tryEvaluateTypeCheck(trimmed, variables_)} |->
               IF typeResult.hit THEN leaf(FALSE, typeResult.val)
               ELSE leaf(FALSE, isTruthy(resolveValue(trimmed, variables_)))])])])])])

----------------------------------------------------------------------------
(* filters.ts: a FilterCall is [name, params], params a sequence of <<key, value>> *)

\* value.replace(/\\["']/g, (match) => match[1])
RECURSIVE UnescapeQuotes(_)
UnescapeQuotes(s) ==
  IF s = <<>> THEN <<>>
  ELSE IF Len(s) >= 2 /\ s[1] = "\\" /\ s[2] \in {"\"", "'"} THEN <<s[2]>> \o UnescapeQuotes(SubSeq(s, 3, Len(s)))
  ELSE <<s[1]>> \o UnescapeQuotes(Tail(s))

parseParam(param, params) ==
  With([eqIdx \in {IndexOf(param, <<"=">>)} |->
    IF eqIdx = -1 THEN params
    ELSE MapSet(params, Trim(Slice(param, 0, eqIdx)),
                UnescapeQuotes(StripQuotes(Trim(SliceFrom(param, eqIdx + 1)))))])

\* the loop of parseFilter over paramsStr, and the commit after it
RECURSIVE ParseParams(_, _, _, _, _)
ParseParams(paramsStr, i, current, quoteChar, params) ==
  IF i >= Len(paramsStr)
  THEN (IF Trim(current) # <<>> THEN parseParam(Trim(current), params) ELSE params)
  ELSE With([char \in {At(paramsStr, i)} |->
         With([next \in {IF char \in {"\"", "'"} /\ At(paramsStr, i - 1) # "\\"
                         THEN (IF quoteChar = "" THEN char ELSE IF char = quoteChar THEN "" ELSE quoteChar)
                         ELSE quoteChar} |->
           With([split \in {char = "," /\ next = ""} |->
             ParseParams(paramsStr, i + 1, IF split THEN <<>> ELSE Append(current, char), next,
                         IF split THEN parseParam(Trim(current), params) ELSE params)])])])

parseFilter(filterString) ==
  With([trimmed \in {Trim(filterString)} |->
    IF ~Includes(trimmed, <<"=">>) /\ ~Includes(trimmed, <<":">>) THEN [name |-> trimmed, params |-> <<>>]
    ELSE IF ~Includes(trimmed, <<":">>)
    THEN With([pair \in {TrimAll(Split(trimmed, <<"=">>))} |->
           [name |-> pair[1], params |-> <<<<<<"v","a","l","u","e">>, StripQuotes(pair[2])>>>>]])
    ELSE With([colonIdx \in {IndexOf(trimmed, <<":">>)} |->
           [name |-> Trim(Slice(trimmed, 0, colonIdx)),
            params |-> ParseParams(SliceFrom(trimmed, colonIdx + 1), 0, <<>>, "", <<>>)]])])

\* ToIntegerOrInfinity of a slice argument, the infinities clamped past n
ToInteger(x, n) ==
  IF IsNaN(x) THEN 0
  ELSE IF ~IsFinite(x) THEN x[1] * (n + 1)
  ELSE Sign(x[1]) * (Abs(x[1]) \div x[2])

\* applyHeadFilter and applyTailFilter; err = TRUE when they throw
applyHeadTailFilter(name, text, params) ==
  With([value \in {MapGet(params, <<"v","a","l","u","e">>)}, n \in {Len(text)} |->
    IF value.t = "undef" \/ value.v = <<>> THEN [err |-> TRUE, v |-> <<>>]
    ELSE With([length \in {StrNum(value.v)} |->
           IF IsNaN(length) THEN [err |-> TRUE, v |-> <<>>]
           ELSE IF name = <<"h","e","a","d">>
           THEN [err |-> FALSE,
                 v |-> Slice(text, 0, ToInteger(IF NumLess(length, <<0, 1>>) THEN Arith("+", <<n, 1>>, length)
                                                ELSE length, n))]
           ELSE [err |-> FALSE,
                 v |-> IF length[1] = 0 THEN <<>>
                       ELSE SliceFrom(text, ToInteger(Arith("-", <<0, 1>>, length), n))]])])

\* every special character gets one backslash in front; the passes touch
\* disjoint characters and the backslash pass runs first. (The backquote is
\* special too; the texts here hold none.)
applyEscapeMdFilter(text) ==
  Join([k \in 1..Len(text) |->
          IF InSeq(text[k], <<"\\","*","_","[","]","(",")","#",">","~","|">>) THEN <<"\\", text[k]>> ELSE <<text[k]>>], <<>>)

applyFilter(text, filter) ==
  CASE filter.name \in {<<"h","e","a","d">>, <<"t","a","i","l">>} -> applyHeadTailFilter(filter.name, text, [k \in 1..Len(filter.params) |-> <<filter.params[k][1], Str(filter.params[k][2])>>])
    [] filter.name = <<"t","r","i","m">> -> [err |-> FALSE, v |-> Trim(text)]
    [] filter.name = <<"e","s","c","a","p","e","_","m","d">> -> [err |-> FALSE, v |-> applyEscapeMdFilter(text)]
    [] OTHER -> [err |-> TRUE, v |-> <<>>]

RECURSIVE applyFilters(_, _)
applyFilters(text, filters) ==
  IF filters = <<>> THEN [err |-> FALSE, v |-> text]
  ELSE With([result \in {applyFilter(text, filters[1])} |->
         IF result.err THEN result ELSE applyFilters(result.v, Tail(filters))])

----------------------------------------------------------------------------
(* expressions.ts, arithmetic: a math token is a number value or a string value *)

\* the characters from i on that satisfy class: "number" is /[\d.]/,
\* "name" is /[a-zA-Z0-9_@.]/
RunFrom(expr, i, class) ==
  LET in(c) == IF class = "number" THEN IsDigit(c) \/ c = "."
               ELSE IsWord(c) \/ c \in {"@", "."}
      stop == SetMin({j \in i..Len(expr) : j = Len(expr) \/ ~in(At(expr, j))})
  IN Slice(expr, i, stop)

\* one pass through the body of tokenizeMath's while loop, at i < expr.length:
\* the new i and tokens, err = TRUE when the TypeError is thrown. A character
\* that is no blank, operator, parenthesis, digit or name character leaves
\* i and tokens as they were.
tokenizeMathBody(expr, variables_, i, tokens_) ==
  With([char \in {expr[i + 1]} |->
    IF IsSpace(char) THEN [i |-> i + 1, tokens |-> tokens_, err |-> FALSE]
    ELSE IF char \in {"+", "-", "*", "/", "%", "(", ")"}
    THEN [i |-> i + 1, tokens |-> Append(tokens_, Str(<<char>>)), err |-> FALSE]
    ELSE IF IsDigit(char)
    THEN With([num \in {RunFrom(expr, i, "number")} |->
           [i |-> i + Len(num), tokens |-> Append(tokens_, NumV(StrNum(num))), err |-> FALSE]])
    ELSE With([varName \in {RunFrom(expr, i, "name")} |->
           IF varName = <<>> THEN [i |-> i, tokens |-> tokens_, err |-> FALSE]
           ELSE With([value \in {tryCoerceToNumber(resolveValue(varName, variables_))} |->
                  IF value = Null THEN [i |-> i + Len(varName), tokens |-> tokens_, err |-> TRUE]
                  ELSE [i |-> i + Len(varName), tokens |-> Append(tokens_, value), err |-> FALSE]])])])

\* tokenizeMath from i on: kind "ok" with the tokens, "throw" for the TypeError,
\* "hang" when a pass leaves i where it was, which repeats that pass for ever
RECURSIVE tokenizeMath(_, _, _, _)
tokenizeMath(expr, variables_, i, tokens_) ==
  IF i >= Len(expr) THEN [kind |-> "ok", tokens |-> tokens_]
  ELSE With([pass \in {tokenizeMathBody(expr, variables_, i, tokens_)} |->
         IF pass.err THEN [kind |-> "throw", tokens |-> <<>>]
         ELSE IF pass.i = i THEN [kind |-> "hang", tokens |-> <<>>]
         ELSE tokenizeMath(expr, variables_, pass.i, pass.tokens)])

\* left op right on two tokens: + concatenates when either is a string, every
\* other operator (and + on two numbers) converts strings with Number()
TokenArith(op, left, right) ==
  LET num(tok) == IF tok.t = "str" THEN StrNum(tok.v) ELSE tok.v
  IN IF op = "+" /\ (left.t = "str" \/ right.t = "str") THEN Str(JsString(left) \o JsString(right))
     ELSE NumV(Arith(op, num(left), num(right)))

\* a for loop that takes every operator it comes to, whichever pass it is in
RECURSIVE ReduceTokensAnyOperator(_, _, _)
ReduceTokensAnyOperator(tokens_, i, ops) ==
  IF i >= Len(tokens_) - 1 THEN tokens_
  ELSE IF tokens_[i + 1].t = "str"
  THEN ReduceTokensAnyOperator(SubSeq(tokens_, 1, i - 1)
                                 \o <<TokenArith(tokens_[i + 1].v[1], tokens_[i], tokens_[i + 2])>>
                                 \o SubSeq(tokens_, i + 3, Len(tokens_)), i, ops)
  ELSE ReduceTokensAnyOperator(tokens_, i + 1, ops)

\* one of the two for loops of evaluateMathTokens, from index i (0-based) on
RECURSIVE ReduceTokens(_, _, _)
ReduceTokens(tokens_, i, ops) ==
  IF i >= Len(tokens_) - 1 THEN tokens_
  ELSE IF tokens_[i + 1].t = "str" /\ Len(tokens_[i + 1].v) = 1 /\ tokens_[i + 1].v[1] \in ops
  THEN ReduceTokens(SubSeq(tokens_, 1, i - 1)
                      \o <<TokenArith(tokens_[i + 1].v[1], tokens_[i], tokens_[i + 2])>>
                      \o SubSeq(tokens_, i + 3, Len(tokens_)), i, ops)
  ELSE ReduceTokens(tokens_, i + 1, ops)

\* err = TRUE when it throws, v the number it returns
RECURSIVE evaluateMathTokens(_)
evaluateMathTokens(tokens_) ==
  With([opens \in {{k \in 1..Len(tokens_) : tokens_[k] = Str(<<"(">>)}} |->
    IF opens = {}
    THEN With([flat \in {ReduceTokens(ReduceTokens(tokens_, 1, {"*", "/", "%"}), 1, {"+", "-"})} |->
           IF Len(flat) # 1 \/ flat[1].t # "num" THEN [err |-> TRUE, v |-> <<0, 0>>]
           ELSE [err |-> FALSE, v |-> flat[1].v]])
    ELSE With([openIdx \in {SetMax(opens)} |->
           With([closes \in {{k \in openIdx..Len(tokens_) : tokens_[k] = Str(<<")">>)}} |->
             IF closes = {} THEN [err |-> TRUE, v |-> <<0, 0>>]
             ELSE With([closeIdx \in {SetMin(closes)} |->
                    With([result \in {evaluateMathTokens(SubSeq(tokens_, openIdx + 1, closeIdx - 1))} |->
                      IF result.err THEN [err |-> TRUE, v |-> <<0, 0>>]
                      ELSE evaluateMathTokens(SubSeq(tokens_, 1, openIdx - 1) \o <<NumV(result.v)>>
                                                \o SubSeq(tokens_, closeIdx + 1, Len(tokens_)))])])])])])

----------------------------------------------------------------------------
(* errors.ts. What a call returns or throws is a record: kind "ok" with the  *)
(* text out, "throw" with the error, or "hang" when the call never returns.  *)

NoError == [type |-> "", name |-> <<>>, available |-> <<>>, line |-> 0, column |-> 0]
Ok(out) == [kind |-> "ok", out |-> out, error |-> NoError]
\* MissingVariableError is constructed at line 1, column 1; a plain Error has no position
Throw(type, name, available) ==
  [kind |-> "throw", out |-> <<>>,
   error |-> [type |-> type, name |-> name, available |-> available, line |-> 1, column |-> 1]]
\* SyntaxError and TypeError: name holds the message
ThrowAt(type, message, line_, column_) ==
  [kind |-> "throw", out |-> <<>>,
   error |-> [type |-> type, name |-> message, available |-> <<>>, line |-> line_, column |-> column_]]
Hang == [kind |-> "hang", out |-> <<>>, error |-> NoError]

----------------------------------------------------------------------------
(* lexer.ts: a Token is [type, value, line, column], its type the characters *)
(* of the TokenType; the Lexer's position is a cursor [pos, line, column].   *)
(* A scan returns [err, c, tokens, thrown]: the cursor and the tokens after  *)
(* it, or err = TRUE and the SyntaxError it throws.                          *)

Token(type, value, line_, column_) == [type |-> type, value |-> value, line |-> line_, column |-> column_]

Scanned(c, tokens_) == [err |-> FALSE, c |-> c, tokens |-> tokens_, thrown |-> Ok(<<>>)]
ScanError(c, tokens_, message, line_, column_) ==
  [err |-> TRUE, c |-> c, tokens |-> tokens_, thrown |-> ThrowAt("SyntaxError", message, line_, column_)]

RECURSIVE advance(_, _, _)
advance(template_, c, count) ==
  IF count = 0 \/ c.pos >= Len(template_) THEN c
  ELSE advance(template_,
               IF template_[c.pos + 1] = "\n" THEN [pos |-> c.pos + 1, line |-> c.line + 1, column |-> 1]
               ELSE [pos |-> c.pos + 1, line |-> c.line, column |-> c.column + 1],
               count - 1)

skipWhitespace(template_, c) ==
  advance(template_, c, SetMin({k \in 0..Len(template_) : At(template_, c.pos + k) \notin {" ", "\t"}}))

\* content.match(/^([A-Z_]+)/): the run of capitals and underscores content
\* starts with, content itself when it starts with none
extractKeyword(content) ==
  With([n \in {SetMin({k \in 0..Len(content) : k = Len(content) \/ ~(InSeq(content[k + 1], Uppers) \/ content[k + 1] = "_")})} |->
    IF n = 0 THEN content ELSE Slice(content, 0, n)])

Keywords ==
  {<<"I","F">>, <<"E","L","S","E","I","F">>, <<"E","L","S","E">>, <<"E","N","D","_","I","F">>, <<"C","A","S","E">>, <<"W","H","E","N">>, <<"D","E","F","A","U","L","T">>, <<"E","N","D","_","W","H","E","N">>, <<"E","N","D","_","D","E","F","A","U","L","T">>,
   <<"E","N","D","_","C","A","S","E">>, <<"F","O","R">>, <<"E","N","D","_","F","O","R">>, <<"L","I","S","T">>, <<"L","I","S","T","_","I","T","E","M">>, <<"E","N","D","_","L","I","S","T","_","I","T","E","M">>, <<"E","N","D","_","L","I","S","T">>, <<"T","A","B","L","E">>,
   <<"H","E","A","D","E","R">>, <<"E","N","D","_","H","E","A","D","E","R">>, <<"R","O","W">>, <<"E","N","D","_","R","O","W">>, <<"E","N","D","_","T","A","B","L","E">>}

\* the members mapping inherits from Object.prototype that a keyword can name
InheritedKeys ==
  {<<"c","o","n","s","t","r","u","c","t","o","r">>, <<"t","o","S","t","r","i","n","g">>, <<"t","o","L","o","c","a","l","e","S","t","r","i","n","g">>, <<"v","a","l","u","e","O","f">>, <<"h","a","s","O","w","n","P","r","o","p","e","r","t","y">>, <<"i","s","P","r","o","t","o","t","y","p","e","O","f">>,
   <<"p","r","o","p","e","r","t","y","I","s","E","n","u","m","e","r","a","b","l","e">>}

\* a getTokenType that takes a keyword it does not know for text
getTokenTypeLenient(keyword) ==
  IF keyword \in Keywords THEN keyword ELSE <<"T","E","X","T">>

\* mapping[keyword] || null: "" is null; an inherited member is a function,
\* which is no TokenType and not null either
getTokenType(keyword) ==
  IF keyword \in Keywords THEN keyword
  ELSE IF keyword \in InheritedKeys THEN <<"f","u","n","c","t","i","o","n">>
  ELSE <<>>

scanVariable(template_, c, tokens_) ==
  With([start \in {advance(template_, c, 3)} |->
    With([close \in {IndexOfFrom(template_, <<"}","}">>, start.pos)} |->
      IF close = -1
      THEN ScanError(advance(template_, start, Len(template_)), tokens_,
                     <<"U","n","c","l","o","s","e","d"," ","v","a","r","i","a","b","l","e"," ","s","u","b","s","t","i","t","u","t","i","o","n"," ","$","{","{",".",".",".","}","}">>, c.line, c.column)
      ELSE Scanned(advance(template_, start, close + 2 - start.pos),
                   Append(tokens_, Token(<<"V","A","R","I","A","B","L","E">>, Trim(Slice(template_, start.pos, close)),
                                         c.line, c.column)))])])

\* scanComment, entered at the "#"; startLine and startColumn are those of c
scanComment(template_, hash, c, tokens_) ==
  With([start \in {advance(template_, hash, 1)} |->
    With([close \in {IndexOfFrom(template_, <<"#","}","}">>, start.pos)} |->
      IF close = -1
      THEN ScanError(advance(template_, start, Len(template_)), tokens_,
                     <<"U","n","c","l","o","s","e","d"," ","c","o","m","m","e","n","t"," ","{","{","#"," ",".",".","."," ","#","}","}">>, c.line, c.column)
      ELSE Scanned(advance(template_, start, close + 3 - start.pos),
                   Append(tokens_, Token(<<"C","O","M","M","E","N","T">>, Slice(template_, start.pos, close),
                                         c.line, c.column)))])])

\* scanUntilClosing from i at the given depth: where the "}}" it returns at
\* begins, -1 when it runs off the end
RECURSIVE ClosingAt(_, _, _)
ClosingAt(template_, i, depth) ==
  IF i >= Len(template_) THEN -1
  ELSE IF StartsWithAt(template_, <<"{","{">>, i) THEN ClosingAt(template_, i + 2, depth + 1)
  ELSE IF StartsWithAt(template_, <<"}","}">>, i)
  THEN (IF depth = 0 THEN i ELSE ClosingAt(template_, i + 2, depth - 1))
  ELSE ClosingAt(template_, i + 1, depth)

scanTag(template_, c, tokens_) ==
  With([open \in {skipWhitespace(template_, advance(template_, c, 2))} |->
    IF At(template_, open.pos) = "#" THEN scanComment(template_, open, c, tokens_)
    ELSE With([close \in {ClosingAt(template_, open.pos, 0)} |->
      IF close = -1
      THEN With([end \in {advance(template_, open, Len(template_))} |->
             ScanError(end, tokens_, <<"U","n","c","l","o","s","e","d"," ","t","a","g"," ","{","{",".",".",".","}","}">>, end.line, end.column)])
      ELSE With([trimmed \in {Trim(Slice(template_, open.pos, close))},
                 after \in {advance(template_, open, close + 2 - open.pos)} |->
             With([keyword \in {extractKeyword(trimmed)} |->
               With([tokenType \in {getTokenType(keyword)} |->
                 IF tokenType = <<>>
                 THEN ScanError(after, tokens_, <<"U","n","k","n","o","w","n"," ","t","e","m","p","l","a","t","e"," ","t","a","g",":"," ","{","{">> \o keyword \o <<"}","}">>,
                                c.line, c.column)
                 ELSE Scanned(after, Append(tokens_, Token(tokenType, trimmed, c.line, c.column)))])])])])])

\* content.replace(/\r\n/g, "\n")
RECURSIVE NormalizeCrlf(_)
NormalizeCrlf(s) ==
  IF s = <<>> THEN <<>>
  ELSE IF Len(s) >= 2 /\ s[1] = "\r" /\ s[2] = "\n" THEN <<"\n">> \o NormalizeCrlf(SubSeq(s, 3, Len(s)))
  ELSE <<s[1]>> \o NormalizeCrlf(Tail(s))

scanText(template_, c, tokens_) ==
  With([stop \in {SetMin({k \in c.pos..Len(template_) :
                           \/ k = Len(template_)
                           \/ StartsWithAt(template_, <<"$","{","{">>, k)
                           \/ StartsWithAt(template_, <<"{","{">>, k)})} |->
    Scanned(advance(template_, c, stop - c.pos),
            IF stop > c.pos
            THEN Append(tokens_, Token(<<"T","E","X","T">>, NormalizeCrlf(Slice(template_, c.pos, stop)), c.line, c.column))
            ELSE tokens_)])

\* one pass through the body of tokenize's while loop. Its test for a tag is
\* current() === "{" && peek() === "{", and peek() is current(): a single "{"
\* the loop stands at is scanned as a tag.
tokenizeStep(template_, c, tokens_) ==
  IF StartsWithAt(template_, <<"$","{","{">>, c.pos) THEN scanVariable(template_, c, tokens_)
  ELSE IF At(template_, c.pos) = "{" THEN scanTag(template_, c, tokens_)
  ELSE scanText(template_, c, tokens_)

Openers == {<<"I","F">>, <<"F","O","R">>, <<"C","A","S","E">>, <<"T","A","B","L","E">>, <<"L","I","S","T">>}
Closers == {<<"E","N","D","_","I","F">>, <<"E","N","D","_","F","O","R">>, <<"E","N","D","_","C","A","S","E">>, <<"E","N","D","_","T","A","B","L","E">>, <<"E","N","D","_","L","I","S","T">>}

\* s.replace(a, b) for single characters: the first a only
ReplaceFirst(s, a, b) ==
  IF InSeq(a, s) THEN [k \in 1..Len(s) |-> IF k = IndexIn(a, s) THEN b ELSE s[k]] ELSE s

\* validateBlocks from the k-th token on, stack_ its stack: Ok, or the
\* SyntaxError it throws
RECURSIVE ValidateFrom(_, _, _)
ValidateFrom(tokens_, k, stack_) ==
  IF k > Len(tokens_)
  THEN (IF stack_ = <<>> THEN Ok(<<>>)
        ELSE With([unclosed \in {stack_[Len(stack_)]} |->
               ThrowAt("SyntaxError",
                       <<"U","n","c","l","o","s","e","d"," ","{","{">> \o ReplaceFirst(unclosed.type, "_", " ") \o <<"}","}"," ","b","l","o","c","k"," ","s","t","a","r","t","i","n","g"," ","a","t"," ","l","i","n","e"," ">>
                         \o NatStr(unclosed.line),
                       unclosed.line, unclosed.column)]))
  ELSE With([token \in {tokens_[k]} |->
         With([pushed \in {IF token.type \in Openers THEN Append(stack_, token) ELSE stack_} |->
           IF token.type \notin Closers THEN ValidateFrom(tokens_, k + 1, pushed)
           ELSE IF pushed = <<>> \/ pushed[Len(pushed)].type # SliceFrom(token.type, 4)
           THEN ThrowAt("SyntaxError",
                        <<"U","n","e","x","p","e","c","t","e","d"," ","{","{">> \o token.type \o <<"}","}"," ","w","i","t","h","o","u","t"," ","m","a","t","c","h","i","n","g"," ","{","{">> \o SliceFrom(token.type, 4) \o <<"}","}">>,
                        token.line, token.column)
           ELSE ValidateFrom(tokens_, k + 1, SubSeq(pushed, 1, Len(pushed) - 1))])])

\* a validateBlocks that only counts: as many closers as openers, of any type
validateBlocksAnyCloser(tokens_) ==
  LET opens == Cardinality({k \in 1..Len(tokens_) : tokens_[k].type \in Openers})
      closes == Cardinality({k \in 1..Len(tokens_) : tokens_[k].type \in Closers})
  IN IF opens = closes THEN Ok(<<>>) ELSE ThrowAt("SyntaxError", <<"U","n","b","a","l","a","n","c","e","d"," ","b","l","o","c","k","s">>, 1, 1)

validateBlocks(tokens_) == ValidateFrom(tokens_, 1, <<>>)

----------------------------------------------------------------------------
(* parser.ts: AST nodes are records with a type field *)

\* a parseVariableExpression that takes the default off the end of the whole
\* expression before it splits the filters
parseVariableExpressionDefaultLast(expr) ==
  LET defaultIdx == IndexOf(expr, <<"?","?">>)
      head == IF defaultIdx # -1 THEN Slice(expr, 0, defaultIdx) ELSE expr
      parts == TrimAll(Split(head, <<"|">>))
      filterExprs == Tail(parts)
  IN [type |-> "Variable",
      path |-> TrimAll(Split(parts[1], <<".">>)),
      defaultValue |-> IF defaultIdx # -1 THEN Str(StripQuotes(Trim(SliceFrom(expr, defaultIdx + 2)))) ELSE Undef,
      filters |-> [k \in 1..Len(filterExprs) |-> [name |-> filterExprs[k], params |-> <<>>]]]

\* Parser.parseVariableExpression, as the VariableNode parseVariable builds
\* from it; an absent defaultValue is Undef, absent filters are <<>>
parseVariableExpression(expr) ==
  With([parts \in {TrimAll(Split(expr, <<"|">>))} |->
    With([core \in {parts[1]}, filterExprs \in {Tail(parts)} |->
      With([defaultIdx \in {IndexOf(core, <<"?","?">>)} |->
        [type |-> "Variable",
         path |-> TrimAll(Split(IF defaultIdx # -1 THEN Trim(Slice(core, 0, defaultIdx)) ELSE core, <<".">>)),
         defaultValue |-> IF defaultIdx # -1 THEN Str(StripQuotes(Trim(SliceFrom(core, defaultIdx + 2))))
                          ELSE Undef,
         filters |-> [k \in 1..Len(filterExprs) |-> [name |-> filterExprs[k], params |-> <<>>]]]])])])

\* a parse returns [err, node, pos, thrown]: the node (or nodes) and the
\* Parser's pos after it, or err = TRUE and the SyntaxError it throws; pos
\* counts the tokens consumed, so that current() is tokens_[pos_ + 1]
Parsed(node, pos_) == [err |-> FALSE, node |-> node, pos |-> pos_, thrown |-> Ok(<<>>)]
ParseError(thrown) == [err |-> TRUE, node |-> <<>>, pos |-> 0, thrown |-> thrown]

isAtEnd(tokens_, pos_) == tokens_[pos_ + 1].type = <<"E","O","F">>

check(tokens_, pos_, type) == ~isAtEnd(tokens_, pos_) /\ tokens_[pos_ + 1].type = type

\* node |-> the token consumed
consume(tokens_, pos_, type) ==
  IF check(tokens_, pos_, type) THEN Parsed(tokens_[pos_ + 1], pos_ + 1)
  ELSE With([token \in {tokens_[pos_ + 1]} |->
         ParseError(ThrowAt("SyntaxError", <<"E","x","p","e","c","t","e","d"," ">> \o type \o <<","," ","g","o","t"," ">> \o token.type,
                            token.line, token.column))])

parseText(token) ==
  [type |-> "Text", content |-> token.value, line |-> token.line, column |-> token.column]

parseVariable(token) ==
  With([parts \in {parseVariableExpression(token.value)} |->
    [type |-> "Variable", path |-> parts.path, defaultValue |-> parts.defaultValue,
     filters |-> parts.filters, line |-> token.line, column |-> token.column]])

parseComment(token) ==
  [type |-> "Comment", content |-> token.value, line |-> token.line, column |-> token.column]

\* expr.replace(/^(ELSE)?IF\s+/i, "").trim()
extractCondition(expr) ==
  With([lower \in {ToLower(expr)} |->
    With([k \in {IF StartsWith(lower, <<"e","l","s","e","i","f">>) THEN 6 ELSE IF StartsWith(lower, <<"i","f">>) THEN 2 ELSE 0} |->
      IF k > 0 /\ IsSpace(At(expr, k)) THEN Trim(SliceFrom(expr, k)) ELSE Trim(expr)])])

\* where the run of blanks at a ends
BlankRun(s, a) == SetMin({j \in a..Len(s) : ~IsSpace(At(s, j))})

\* whether \s+AS\s+(\w+) matches at e, lower the expression in lower case
ForAsAt(expr, lower, e) ==
  /\ IsSpace(At(expr, e))
  /\ With([a \in {BlankRun(expr, e)} |->
       /\ Slice(lower, a, a + 2) = <<"a","s">>
       /\ IsSpace(At(expr, a + 2))
       /\ IsWord(At(expr, BlankRun(expr, a + 2)))])

\* expr.match(/FOR\s+(.+?)\s+AS\s+(\w+)/i). A match is FOR at f, the first
\* group from s to e and AS after the blanks at e. The dot of the group takes
\* any character but a line terminator, a blank included.
ForMatches(expr) ==
  With([lower \in {ToLower(expr)}, n \in {Len(expr)} |->
    UNION {UNION {{[f |-> f, s |-> s, e |-> e] :
                     e \in {j \in (s + 1)..n : /\ \A i \in s..(j - 1) : At(expr, i) \notin {"\n", "\r"}
                                               /\ ForAsAt(expr, lower, j)}} :
                  s \in (f + 4)..BlankRun(expr, f + 3)} :
           f \in {i \in 0..n : Slice(lower, i, i + 3) = <<"f","o","r">> /\ IsSpace(At(expr, i + 3))}}])

\* The regular expression takes the leftmost f, for it the longest run of
\* blanks before the group and for that the shortest group. It is not
\* anchored and its group takes blanks: text before FOR and after the item
\* name is passed over, and "FOR   AS x" gives the iterable <<"">>.
\* err = TRUE: no match, the "Invalid FOR syntax" SyntaxError
parseForExpression(expr) ==
  With([matches \in {ForMatches(expr)} |->
    IF matches = {} THEN [err |-> TRUE, iterable |-> <<>>, itemName |-> <<>>]
    ELSE With([f \in {SetMin({m.f : m \in matches})} |->
      With([s \in {SetMax({m.s : m \in {x \in matches : x.f = f}})} |->
        With([e \in {SetMin({m.e : m \in {x \in matches : x.f = f /\ x.s = s}})} |->
          With([w \in {BlankRun(expr, BlankRun(expr, e) + 2)} |->
            [err |-> FALSE,
             iterable |-> TrimAll(Split(Trim(Slice(expr, s, e)), <<".">>)),
             itemName |-> Slice(expr, w, SetMin({j \in w..Len(expr) : ~IsWord(At(expr, j))}))]])])])])])

RECURSIVE parseNode(_, _)

\* the loop parse, parseIf, parseElseIf and parseFor all run: nodes are parsed
\* until the current token is one of stops; at the end of the tokens before
\* that the loop throws unclosed (parse itself stops there)
RECURSIVE parseUntil(_, _, _, _, _)
parseUntil(tokens_, pos_, stops, unclosed, nodes) ==
  IF tokens_[pos_ + 1].type \in stops THEN Parsed(nodes, pos_)
  ELSE IF isAtEnd(tokens_, pos_) THEN ParseError(unclosed)
  ELSE With([child \in {parseNode(tokens_, pos_)} |->
         IF child.err THEN child
         ELSE parseUntil(tokens_, child.pos, stops, unclosed, Append(nodes, child.node))])

\* an alternate is an IfNode, the nodes of an ELSE body or null
ElseBody(nodes) == [type |-> "Array", body |-> nodes]
NoAlternate == [type |-> "null"]

\* parseElseIf at an ELSEIF token; owner is the token an unclosed ELSE body is
\* reported at. parseIf runs the same steps inline for its first ELSEIF, with
\* its own IF token as owner.
RECURSIVE parseElseIf(_, _, _)
parseElseIf(tokens_, pos_, owner) ==
  With([token \in {tokens_[pos_ + 1]} |->
    With([consequent \in {parseUntil(tokens_, pos_ + 1, {<<"E","L","S","E","I","F">>, <<"E","L","S","E">>, <<"E","N","D","_","I","F">>},
                                     ThrowAt("SyntaxError", <<"U","n","c","l","o","s","e","d"," ","{","{","E","L","S","E","I","F","}","}"," ","b","l","o","c","k">>,
                                             token.line, token.column), <<>>)} |->
      IF consequent.err THEN consequent
      ELSE With([next \in {tokens_[consequent.pos + 1]} |->
        With([alternate \in {IF next.type = <<"E","L","S","E","I","F">> THEN parseElseIf(tokens_, consequent.pos, next)
                             ELSE IF next.type = <<"E","L","S","E">>
                             THEN parseUntil(tokens_, consequent.pos + 1, {<<"E","N","D","_","I","F">>},
                                             ThrowAt("SyntaxError", <<"U","n","c","l","o","s","e","d"," ","{","{","E","L","S","E","}","}"," ","b","l","o","c","k">>,
                                                     owner.line, owner.column), <<>>)
                             ELSE Parsed(NoAlternate, consequent.pos)} |->
          IF alternate.err THEN alternate
          ELSE Parsed([type |-> "If", condition |-> extractCondition(token.value),
                       consequent |-> consequent.node,
                       alternate |-> IF next.type = <<"E","L","S","E">> THEN ElseBody(alternate.node)
                                     ELSE alternate.node,
                       line |-> token.line, column |-> token.column],
                      alternate.pos)])])])])

parseIf(tokens_, pos_) ==
  With([token \in {tokens_[pos_ + 1]} |->
    With([consequent \in {parseUntil(tokens_, pos_ + 1, {<<"E","L","S","E","I","F">>, <<"E","L","S","E">>, <<"E","N","D","_","I","F">>},
                                     ThrowAt("SyntaxError",
                                             <<"U","n","c","l","o","s","e","d"," ","{","{","I","F","}","}"," ","b","l","o","c","k"," ","s","t","a","r","t","i","n","g"," ","a","t"," ","l","i","n","e"," ">> \o NatStr(token.line),
                                             token.line, token.column), <<>>)} |->
      IF consequent.err THEN consequent
      ELSE With([next \in {tokens_[consequent.pos + 1]} |->
        With([alternate \in {IF next.type = <<"E","L","S","E","I","F">> THEN parseElseIf(tokens_, consequent.pos, token)
                             ELSE IF next.type = <<"E","L","S","E">>
                             THEN parseUntil(tokens_, consequent.pos + 1, {<<"E","N","D","_","I","F">>},
                                             ThrowAt("SyntaxError", <<"U","n","c","l","o","s","e","d"," ","{","{","E","L","S","E","}","}"," ","b","l","o","c","k">>,
                                                     token.line, token.column), <<>>)
                             ELSE Parsed(NoAlternate, consequent.pos)} |->
          IF alternate.err THEN alternate
          ELSE With([end \in {consume(tokens_, alternate.pos, <<"E","N","D","_","I","F">>)} |->
            IF end.err THEN end
            ELSE Parsed([type |-> "If", condition |-> extractCondition(token.value),
                         consequent |-> consequent.node,
                         alternate |-> IF next.type = <<"E","L","S","E">> THEN ElseBody(alternate.node)
                                       ELSE alternate.node,
                         line |-> token.line, column |-> token.column],
                        end.pos)])])])])])

\* the "Invalid FOR syntax" error is raised after the FOR token is consumed, at
\* the token that follows it
parseFor(tokens_, pos_) ==
  With([token \in {tokens_[pos_ + 1]} |->
    With([expression \in {parseForExpression(token.value)} |->
      IF expression.err
      THEN ParseError(ThrowAt("SyntaxError", <<"I","n","v","a","l","i","d"," ","F","O","R"," ","s","y","n","t","a","x",":"," ">> \o token.value,
                              tokens_[pos_ + 2].line, tokens_[pos_ + 2].column))
      ELSE With([body \in {parseUntil(tokens_, pos_ + 1, {<<"E","N","D","_","F","O","R">>},
                                      ThrowAt("SyntaxError", <<"U","n","c","l","o","s","e","d"," ","{","{","F","O","R","}","}"," ","b","l","o","c","k">>,
                                              token.line, token.column), <<>>)} |->
        IF body.err THEN body
        ELSE With([end \in {consume(tokens_, body.pos, <<"E","N","D","_","F","O","R">>)} |->
          IF end.err THEN end
          ELSE Parsed([type |-> "For", iterable |-> expression.iterable,
                       itemName |-> expression.itemName, body |-> body.node,
                       line |-> token.line, column |-> token.column],
                      end.pos)])])])])

\* expr.replace(/^CASE\s+/i, "").trim()
extractExpression(expr) ==
  IF StartsWith(ToLower(expr), <<"c","a","s","e">>) /\ IsSpace(At(expr, 4)) THEN Trim(SliceFrom(expr, 4)) ELSE Trim(expr)

\* expr.match(/["'](.+?)["']/): from the leftmost quote that has a quote two
\* or more characters after it on its line, up to the nearest such quote;
\* "" when there is none
extractQuotedValue(expr) ==
  With([ends \in {[i \in 0..Len(expr) |->
                    {j \in (i + 2)..(Len(expr) - 1) :
                       /\ At(expr, j) \in {"\"", "'"}
                       /\ \A k \in (i + 1)..(j - 1) : At(expr, k) \notin {"\n", "\r"}}]} |->
    With([starts \in {{i \in 0..(Len(expr) - 1) : At(expr, i) \in {"\"", "'"} /\ ends[i] # {}}} |->
      IF starts = {} THEN <<>>
      ELSE Slice(expr, SetMin(starts) + 1, SetMin(ends[SetMin(starts)]))])])

\* the closing tag of a WHEN or DEFAULT body is consumed when it is there
parseWhen(tokens_, pos_) ==
  With([token \in {tokens_[pos_ + 1]} |->
    With([body \in {parseUntil(tokens_, pos_ + 1, {<<"E","N","D","_","W","H","E","N">>, <<"W","H","E","N">>, <<"D","E","F","A","U","L","T">>, <<"E","N","D","_","C","A","S","E">>},
                               ThrowAt("SyntaxError", <<"U","n","c","l","o","s","e","d"," ","{","{","W","H","E","N","}","}"," ","b","l","o","c","k">>, token.line, token.column),
                               <<>>)} |->
      IF body.err THEN body
      ELSE Parsed([type |-> "When", value |-> extractQuotedValue(token.value), body |-> body.node,
                   line |-> token.line, column |-> token.column],
                  IF tokens_[body.pos + 1].type = <<"E","N","D","_","W","H","E","N">> THEN body.pos + 1 ELSE body.pos)])])

parseDefault(tokens_, pos_) ==
  With([token \in {tokens_[pos_ + 1]} |->
    With([body \in {parseUntil(tokens_, pos_ + 1, {<<"E","N","D","_","D","E","F","A","U","L","T">>, <<"E","N","D","_","C","A","S","E">>},
                               ThrowAt("SyntaxError", <<"U","n","c","l","o","s","e","d"," ","{","{","D","E","F","A","U","L","T","}","}"," ","b","l","o","c","k">>, token.line, token.column),
                               <<>>)} |->
      IF body.err THEN body
      ELSE Parsed([type |-> "Default", body |-> body.node, line |-> token.line, column |-> token.column],
                  IF tokens_[body.pos + 1].type = <<"E","N","D","_","D","E","F","A","U","L","T">> THEN body.pos + 1 ELSE body.pos)])])

\* the while loop of parseCase, token its CASE token: the WhenNodes pushed so
\* far and the DefaultNode (null at first), then the END_CASE consumed
RECURSIVE CaseClauses(_, _, _, _, _)
CaseClauses(tokens_, pos_, token, cases, default) ==
  With([next \in {tokens_[pos_ + 1]} |->
    CASE next.type = <<"E","N","D","_","C","A","S","E">> ->
           Parsed([type |-> "Case", expression |-> extractExpression(token.value), cases |-> cases,
                   default |-> default, line |-> token.line, column |-> token.column], pos_ + 1)
      [] next.type = <<"E","O","F">> ->
           ParseError(ThrowAt("SyntaxError", <<"U","n","c","l","o","s","e","d"," ","{","{","C","A","S","E","}","}"," ","b","l","o","c","k">>, token.line, token.column))
      [] next.type = <<"W","H","E","N">> ->
           With([when \in {parseWhen(tokens_, pos_)} |->
             IF when.err THEN when
             ELSE CaseClauses(tokens_, when.pos, token, Append(cases, when.node), default)])
      [] next.type = <<"D","E","F","A","U","L","T">> ->
           With([clause \in {parseDefault(tokens_, pos_)} |->
             IF clause.err THEN clause
             ELSE CaseClauses(tokens_, clause.pos, token, cases, clause.node)])
      [] next.type = <<"T","E","X","T">> ->
           IF Trim(next.value) # <<>>
           THEN ParseError(ThrowAt("SyntaxError", <<"U","n","e","x","p","e","c","t","e","d"," ","t","e","x","t"," ","i","n"," ","C","A","S","E",":"," ","\"">> \o Trim(next.value) \o <<"\"">>,
                                   next.line, next.column))
           ELSE CaseClauses(tokens_, pos_ + 1, token, cases, default)
      [] OTHER ->
           ParseError(ThrowAt("SyntaxError", <<"U","n","e","x","p","e","c","t","e","d"," ","t","o","k","e","n"," ","i","n"," ","C","A","S","E",":"," ">> \o next.type,
                              next.line, next.column))])

parseCase(tokens_, pos_) == CaseClauses(tokens_, pos_ + 1, tokens_[pos_ + 1], <<>>, [type |-> "null"])

\* s.match(/fallback\s*=\s*["'](.+?)["']/) tried at f: where the quoted text
\* begins and ends, <<>> when there is no match at f
FallbackAt(s, f) ==
  IF ~StartsWithAt(s, <<"f","a","l","l","b","a","c","k">>, f) THEN <<>>
  ELSE With([eq \in {BlankRun(s, f + 8)} |->
         IF At(s, eq) # "=" THEN <<>>
         ELSE With([quote \in {BlankRun(s, eq + 1)} |->
                IF At(s, quote) \notin {"\"", "'"} THEN <<>>
                ELSE With([ends \in {{j \in (quote + 2)..(Len(s) - 1) :
                                        /\ At(s, j) \in {"\"", "'"}
                                        /\ \A k \in (quote + 1)..(j - 1) : At(s, k) \notin {"\n", "\r"}}} |->
                       IF ends = {} THEN <<>> ELSE <<quote + 1, SetMin(ends)>>])])])

\* an absent condition and an absent fallback are <<>>
parseListItemAttributes(expr) ==
  With([afterKeyword \in {Trim(IF StartsWith(expr, <<"L","I","S","T","_","I","T","E","M">>) THEN SliceFrom(expr, 9) ELSE expr)} |->
    IF afterKeyword = <<>> THEN [condition |-> <<>>, fallback |-> <<>>]
    ELSE With([parts \in {Split(afterKeyword, <<"|">>)} |->
      With([matches \in {IF Len(parts) < 2 THEN {}
                         ELSE {f \in 0..Len(parts[2]) : FallbackAt(parts[2], f) # <<>>}} |->
        [condition |-> Trim(parts[1]),
         fallback |-> IF matches = {} THEN <<>>
                      ELSE With([m \in {FallbackAt(parts[2], SetMin(matches))} |->
                             Slice(parts[2], m[1], m[2])])]])])])

parseListItem(tokens_, pos_) ==
  With([token \in {tokens_[pos_ + 1]} |->
    With([content \in {parseUntil(tokens_, pos_ + 1, {<<"E","N","D","_","L","I","S","T","_","I","T","E","M">>, <<"L","I","S","T","_","I","T","E","M">>, <<"E","N","D","_","L","I","S","T">>},
                                  ThrowAt("SyntaxError", <<"U","n","c","l","o","s","e","d"," ","{","{","L","I","S","T","_","I","T","E","M","}","}"," ","b","l","o","c","k">>,
                                          token.line, token.column), <<>>)},
          attributes \in {parseListItemAttributes(token.value)} |->
      IF content.err THEN content
      ELSE Parsed([type |-> "ListItem", content |-> content.node, condition |-> attributes.condition,
                   fallback |-> attributes.fallback, line |-> token.line, column |-> token.column],
                  IF tokens_[content.pos + 1].type = <<"E","N","D","_","L","I","S","T","_","I","T","E","M">> THEN content.pos + 1
                  ELSE content.pos)])])

\* the while loop of parseList, token its LIST token, then the END_LIST consumed
RECURSIVE ListItems(_, _, _, _)
ListItems(tokens_, pos_, token, items) ==
  With([next \in {tokens_[pos_ + 1]} |->
    CASE next.type = <<"E","N","D","_","L","I","S","T">> ->
           Parsed([type |-> "List", items |-> items, line |-> token.line, column |-> token.column], pos_ + 1)
      [] next.type = <<"E","O","F">> ->
           ParseError(ThrowAt("SyntaxError", <<"U","n","c","l","o","s","e","d"," ","{","{","L","I","S","T","}","}"," ","b","l","o","c","k">>, token.line, token.column))
      [] next.type = <<"L","I","S","T","_","I","T","E","M">> ->
           With([item \in {parseListItem(tokens_, pos_)} |->
             IF item.err THEN item ELSE ListItems(tokens_, item.pos, token, Append(items, item.node))])
      [] next.type = <<"T","E","X","T">> ->
           IF Trim(next.value) # <<>>
           THEN ParseError(ThrowAt("SyntaxError", <<"U","n","e","x","p","e","c","t","e","d"," ","t","e","x","t"," ","i","n"," ","L","I","S","T",":"," ","\"">> \o Trim(next.value) \o <<"\"">>,
                                   next.line, next.column))
           ELSE ListItems(tokens_, pos_ + 1, token, items)
      [] OTHER ->
           ParseError(ThrowAt("SyntaxError", <<"U","n","e","x","p","e","c","t","e","d"," ","t","o","k","e","n"," ","i","n"," ","L","I","S","T",":"," ">> \o next.type,
                              next.line, next.column))])

parseList(tokens_, pos_) == ListItems(tokens_, pos_ + 1, tokens_[pos_ + 1], <<>>)

\* whether /align\s*=\s*["'](.+?)["']/ matches at i, and the group it takes
\* then: up to the nearest quote two or more characters after the opening
\* one, on its line
AlignAt(expr, i) ==
  IF Slice(expr, i, i + 5) # <<"a","l","i","g","n">> \/ At(expr, BlankRun(expr, i + 5)) # "="
  THEN [ok |-> FALSE, value |-> <<>>]
  ELSE With([k \in {BlankRun(expr, BlankRun(expr, i + 5) + 1)} |->
    With([closers \in {{q \in (k + 2)..(Len(expr) - 1) :
                          /\ At(expr, q) \in {"\"", "'"}
                          /\ \A m \in (k + 1)..(q - 1) : At(expr, m) \notin {"\n", "\r"}}} |->
      IF At(expr, k) \in {"\"", "'"} /\ closers # {}
      THEN [ok |-> TRUE, value |-> Slice(expr, k + 1, SetMin(closers))]
      ELSE [ok |-> FALSE, value |-> <<>>]])])

\* undefined is <<>>: a match gives one alignment or more
parseTableAlignment(expr) ==
  With([starts \in {{i \in 0..Len(expr) : AlignAt(expr, i).ok}} |->
    IF starts = {} THEN <<>> ELSE TrimAll(Split(AlignAt(expr, SetMin(starts)).value, <<"|">>))])

\* the loop of splitCells over the parts of a text node that holds a pipe
RECURSIVE SplitParts(_, _, _, _)
SplitParts(parts, i, textNode, cells) ==
  IF i > Len(parts) THEN cells
  ELSE With([filled \in {IF parts[i] # <<>>
                         THEN [cells EXCEPT ![Len(cells)] =
                                 Append(@, [type |-> "Text", content |-> parts[i],
                                            line |-> textNode.line, column |-> textNode.column])]
                         ELSE cells} |->
         SplitParts(parts, i + 1, textNode, IF i < Len(parts) THEN Append(filled, <<>>) ELSE filled)])

RECURSIVE CellsFrom(_, _, _)
CellsFrom(nodes, k, cells) ==
  IF k > Len(nodes) THEN cells
  ELSE CellsFrom(nodes, k + 1,
                 IF nodes[k].type = "Text" /\ IndexOf(nodes[k].content, <<"|">>) # -1
                 THEN SplitParts(Split(nodes[k].content, <<"|">>), 1, nodes[k], cells)
                 ELSE [cells EXCEPT ![Len(cells)] = Append(@, nodes[k])])

splitCells(nodes) == CellsFrom(nodes, 1, << <<>> >>)

\* parseTableHeader and parseTableRow: the content up to one of stops, the
\* closer consumed when it is the one that stopped it
parseCells(tokens_, pos_, type, closer, stops, unclosed) ==
  With([token \in {tokens_[pos_ + 1]} |->
    With([content \in {parseUntil(tokens_, pos_ + 1, stops \cup {closer},
                                   ThrowAt("SyntaxError", unclosed, token.line, token.column), <<>>)} |->
      IF content.err THEN content
      ELSE Parsed([type |-> type, cells |-> splitCells(content.node),
                   line |-> token.line, column |-> token.column],
                  IF check(tokens_, content.pos, closer) THEN content.pos + 1 ELSE content.pos)])])

parseTableHeader(tokens_, pos_) ==
  parseCells(tokens_, pos_, "Header", <<"E","N","D","_","H","E","A","D","E","R">>, {<<"E","N","D","_","T","A","B","L","E">>}, <<"U","n","c","l","o","s","e","d"," ","{","{","H","E","A","D","E","R","}","}"," ","b","l","o","c","k">>)

parseTableRow(tokens_, pos_) ==
  parseCells(tokens_, pos_, "TableRow", <<"E","N","D","_","R","O","W">>, {<<"R","O","W">>, <<"E","N","D","_","T","A","B","L","E">>}, <<"U","n","c","l","o","s","e","d"," ","{","{","R","O","W","}","}"," ","b","l","o","c","k">>)

\* a TableNode without a header
NoHeader == [type |-> "null"]

\* the while loop of parseTable, token its TABLE token, then the END_TABLE
\* consumed
RECURSIVE TableRows(_, _, _, _, _)
TableRows(tokens_, pos_, token, header, rows) ==
  With([next \in {tokens_[pos_ + 1]} |->
    CASE next.type = <<"E","N","D","_","T","A","B","L","E">> ->
           Parsed([type |-> "Table", header |-> header, rows |-> rows, hasHeader |-> header # NoHeader,
                   alignment |-> parseTableAlignment(token.value),
                   line |-> token.line, column |-> token.column], pos_ + 1)
      [] next.type = <<"E","O","F">> ->
           ParseError(ThrowAt("SyntaxError", <<"U","n","c","l","o","s","e","d"," ","{","{","T","A","B","L","E","}","}"," ","b","l","o","c","k">>, token.line, token.column))
      [] next.type = <<"H","E","A","D","E","R">> ->
           With([parsed \in {parseTableHeader(tokens_, pos_)} |->
             IF parsed.err THEN parsed ELSE TableRows(tokens_, parsed.pos, token, parsed.node, rows)])
      [] next.type = <<"R","O","W">> ->
           With([parsed \in {parseTableRow(tokens_, pos_)} |->
             IF parsed.err THEN parsed
             ELSE TableRows(tokens_, parsed.pos, token, header, Append(rows, parsed.node))])
      [] next.type = <<"F","O","R">> ->
           With([parsed \in {parseFor(tokens_, pos_)} |->
             IF parsed.err THEN parsed
             ELSE TableRows(tokens_, parsed.pos, token, header,
                            Append(rows, [type |-> "TableRow", cells |-> << <<parsed.node>> >>,
                                          line |-> parsed.node.line, column |-> parsed.node.column]))])
      [] next.type = <<"T","E","X","T">> ->
           IF Trim(next.value) # <<>>
           THEN ParseError(ThrowAt("SyntaxError", <<"U","n","e","x","p","e","c","t","e","d"," ","t","e","x","t"," ","i","n"," ","T","A","B","L","E",":"," ","\"">> \o Trim(next.value) \o <<"\"">>,
                                   next.line, next.column))
           ELSE TableRows(tokens_, pos_ + 1, token, header, rows)
      [] OTHER ->
           ParseError(ThrowAt("SyntaxError", <<"U","n","e","x","p","e","c","t","e","d"," ","t","o","k","e","n"," ","i","n"," ","T","A","B","L","E",":"," ">> \o next.type,
                              next.line, next.column))])

parseTable(tokens_, pos_) == TableRows(tokens_, pos_ + 1, tokens_[pos_ + 1], NoHeader, <<>>)

\* parseNode is not called at EOF
parseNode(tokens_, pos_) ==
  With([token \in {tokens_[pos_ + 1]} |->
    CASE token.type = <<"T","E","X","T">> -> Parsed(parseText(token), pos_ + 1)
      [] token.type = <<"V","A","R","I","A","B","L","E">> -> Parsed(parseVariable(token), pos_ + 1)
      [] token.type = <<"I","F">> -> parseIf(tokens_, pos_)
      [] token.type = <<"C","A","S","E">> -> parseCase(tokens_, pos_)
      [] token.type = <<"F","O","R">> -> parseFor(tokens_, pos_)
      [] token.type = <<"L","I","S","T">> -> parseList(tokens_, pos_)
      [] token.type = <<"T","A","B","L","E">> -> parseTable(tokens_, pos_)
      [] token.type = <<"H","E","A","D","E","R">> -> parseTableHeader(tokens_, pos_)
      [] token.type = <<"R","O","W">> -> parseTableRow(tokens_, pos_)
      [] token.type = <<"C","O","M","M","E","N","T">> -> Parsed(parseComment(token), pos_ + 1)
      [] token.type \notin {<<"T","E","X","T">>, <<"V","A","R","I","A","B","L","E">>, <<"I","F">>, <<"F","O","R">>, <<"C","O","M","M","E","N","T">>, <<"E","O","F">>,
                            <<"C","A","S","E">>, <<"L","I","S","T">>, <<"T","A","B","L","E">>, <<"H","E","A","D","E","R">>, <<"R","O","W">>} ->
           ParseError(ThrowAt("SyntaxError", <<"U","n","e","x","p","e","c","t","e","d"," ","t","o","k","e","n",":"," ">> \o token.type,
                              token.line, token.column))])

\* Parser.parse: the body of the ProgramNode
parse(tokens_) == parseUntil(tokens_, 0, {<<"E","O","F">>}, Ok(<<>>), <<>>)

----------------------------------------------------------------------------
(* interpreter.ts *)

\* Interpreter.getAllVariables: the caller's variables overlaid by the loop context
RECURSIVE getAllVariables(_, _)
getAllVariables(variables_, loopContext_) ==
  IF loopContext_ = <<>> THEN variables_
  ELSE getAllVariables(MapSet(variables_, loopContext_[1][1], loopContext_[1][2]), Tail(loopContext_))

isMathExpression(expr) == \E k \in 1..Len(expr) : expr[k] \in {"+", "-", "*", "/", "%", "(", ")"}

\* a resolveNestedPath whose strict mode also rejects a root bound to null or
\* undefined
resolveNestedPathNullThrows(path, allowUndefined, variables_, loopContext_, strictMode_) ==
  LET rootKey == path[1]
      root == IF MapHas(loopContext_, rootKey) THEN MapGet(loopContext_, rootKey) ELSE MapGet(variables_, rootKey)
  IN IF IsNullish(root)
     THEN [err |-> ~allowUndefined /\ strictMode_, v |-> Null]
     ELSE [err |-> FALSE, v |-> ResolveHops(root, path, 2, TRUE)]

\* err = TRUE: the MissingVariableError for path[0], which lists the keys of
\* the caller's variables
resolveNestedPath(path, allowUndefined, variables_, loopContext_, strictMode_) ==
  With([rootKey \in {path[1]} |->
    IF ~(MapHas(loopContext_, rootKey) \/ MapHas(variables_, rootKey))
    THEN [err |-> ~allowUndefined /\ strictMode_, v |-> Null]
    ELSE [err |-> FALSE,
          v |-> ResolveHops(IF MapHas(loopContext_, rootKey) THEN MapGet(loopContext_, rootKey)
                            ELSE MapGet(variables_, rootKey), path, 2, TRUE)]])

valueToString(value) ==
  IF IsNullish(value) THEN <<>> ELSE tryCoerceToString(value).v

\* a visitVariable that takes the default for null and undefined only
visitVariablePathNullishDefault(node, variables_, loopContext_, strictMode_) ==
  LET resolved == resolveNestedPath(node.path, node.defaultValue.t # "undef", variables_, loopContext_, strictMode_)
      text == valueToString(IF node.defaultValue.t # "undef" /\ IsNullish(resolved.v)
                            THEN node.defaultValue ELSE resolved.v)
      filtered == applyFilters(text, [k \in 1..Len(node.filters) |-> parseFilter(node.filters[k].name)])
  IN IF resolved.err THEN Throw("MissingVariableError", node.path[1], MapKeys(variables_))
     ELSE IF filtered.err THEN Throw("Error", <<>>, <<>>) ELSE Ok(filtered.v)

\* visitVariable after the arithmetic attempt: path resolution, default, filters
visitVariablePath(node, variables_, loopContext_, strictMode_) ==
  With([resolved \in {resolveNestedPath(node.path, node.defaultValue.t # "undef", variables_,
                                        loopContext_, strictMode_)} |->
    IF resolved.err THEN Throw("MissingVariableError", node.path[1], MapKeys(variables_))
    ELSE With([text \in {valueToString(IF node.defaultValue.t # "undef" /\ ~isTruthy(resolved.v)
                                       THEN node.defaultValue ELSE resolved.v)} |->
           IF node.filters = <<>> THEN Ok(text)
           ELSE With([filtered \in {applyFilters(text, [k \in 1..Len(node.filters) |->
                                                          parseFilter(node.filters[k].name)])} |->
                  IF filtered.err THEN Throw("Error", <<>>, <<>>) ELSE Ok(filtered.v)])])])

\* a visit returns what it returned or threw, with the Interpreter's
\* loopContext after it and the trace of the nodes visited up to then
Returned(outcome_, loopContext_, trace_) ==
  [kind |-> outcome_.kind, out |-> outcome_.out, error |-> outcome_.error,
   loopContext |-> loopContext_, trace |-> trace_]

\* the trace entry of a visit: the node and the loop context on entry
Visited(node, loopContext_) ==
  [type |-> node.type, line |-> node.line, column |-> node.column, loopContext |-> loopContext_]

\* evaluateMathExpression: kind is "ok" with the number, "throw" for its
\* TypeError, "hang" when tokenizeMath does not return
evaluateMathExpression(expression, variables_) ==
  With([pass \in {tokenizeMath(expression, variables_, 0, <<>>)} |->
    IF pass.kind # "ok" THEN [kind |-> pass.kind, v |-> <<0, 0>>]
    ELSE With([result \in {evaluateMathTokens(pass.tokens)} |->
           [kind |-> IF result.err THEN "throw" ELSE "ok", v |-> result.v]])])

visitVariable(node, variables_, loopContext_, strictMode_) ==
  With([pathStr \in {Join(node.path, <<".">>)} |->
    With([math \in {IF isMathExpression(pathStr)
                    THEN evaluateMathExpression(pathStr, getAllVariables(variables_, loopContext_))
                    ELSE [kind |-> "throw", v |-> <<0, 0>>]} |->
      CASE math.kind = "hang" -> Hang
        [] math.kind = "ok" -> Ok(NumStr(math.v))
        [] OTHER -> visitVariablePath(node, variables_, loopContext_, strictMode_)])])

\* the bindings visitFor sets for array[i], in the order it sets them
forBindingsIndexOnly(itemName, array, i) ==
  <<<<itemName, array[i + 1]>>, <<<<"@","i","n","d","e","x","0">>, IntV(i)>>, <<<<"@","i","n","d","e","x","1">>, IntV(i)>>,
    <<<<"@","f","i","r","s","t">>, Bool(FALSE)>>, <<<<"@","l","a","s","t">>, Bool(FALSE)>>,
    <<<<"@","n","o","t","F","i","r","s","t">>, Bool(TRUE)>>, <<<<"@","n","o","t","L","a","s","t">>, Bool(TRUE)>>>>

forBindings(itemName, array, i) ==
  <<<<itemName, array[i + 1]>>, <<<<"@","i","n","d","e","x","0">>, IntV(i)>>, <<<<"@","i","n","d","e","x","1">>, IntV(i + 1)>>,
    <<<<"@","f","i","r","s","t">>, Bool(i = 0)>>, <<<<"@","l","a","s","t">>, Bool(i = Len(array) - 1)>>,
    <<<<"@","n","o","t","F","i","r","s","t">>, Bool(i # 0)>>, <<<<"@","n","o","t","L","a","s","t">>, Bool(i # Len(array) - 1)>>>>

\* loopContext.set for each binding in turn
RECURSIVE SetAll(_, _)
SetAll(loopContext_, bindings) ==
  IF bindings = <<>> THEN loopContext_
  ELSE SetAll(MapSet(loopContext_, bindings[1][1], bindings[1][2]), Tail(bindings))

RECURSIVE visit(_, _, _, _, _)

\* nodes.map((child) => this.visit(child)).join(""), out the strings joined so far
RECURSIVE visitAll(_, _, _, _, _, _)
visitAll(nodes, variables_, loopContext_, strictMode_, trace_, out) ==
  IF nodes = <<>> THEN Returned(Ok(out), loopContext_, trace_)
  ELSE With([child \in {visit(nodes[1], variables_, loopContext_, strictMode_, trace_)} |->
         IF child.kind # "ok" THEN child
         ELSE visitAll(Tail(nodes), variables_, child.loopContext, strictMode_, child.trace,
                       out \o child.out)])

RECURSIVE visitIf(_, _, _, _, _)

\* a visitIf that runs its ELSEIF chain even when its own condition is true
visitIfEager(node, variables_, loopContext_, strictMode_, trace_) ==
  LET result == evaluateCondition(node.condition, getAllVariables(variables_, loopContext_))
      seen == Append(trace_, Visited(node, loopContext_))
      chain == IF node.alternate.type = "If"
               THEN visitIf(node.alternate, variables_, loopContext_, strictMode_, seen)
               ELSE Returned(Ok(<<>>), loopContext_, seen)
  IN IF result.err THEN Returned(Throw("TypeError", node.condition, <<>>), loopContext_, seen)
     ELSE IF result.val
     THEN (IF chain.kind # "ok" THEN chain
           ELSE visitAll(node.consequent, variables_, loopContext_, strictMode_, chain.trace, <<>>))
     ELSE IF node.alternate.type = "If" THEN chain
     ELSE visitAll(IF node.alternate.type = "Array" THEN node.alternate.body ELSE <<>>,
                   variables_, loopContext_, strictMode_, seen, <<>>)

\* the TypeError evaluateCondition throws passes through visitIf
visitIf(node, variables_, loopContext_, strictMode_, trace_) ==
  With([result \in {evaluateCondition(node.condition, getAllVariables(variables_, loopContext_))},
        seen \in {Append(trace_, Visited(node, loopContext_))} |->
    IF result.err THEN Returned(Throw("TypeError", node.condition, <<>>), loopContext_, seen)
    ELSE IF ~result.val /\ node.alternate.type = "If"
    THEN visitIf(node.alternate, variables_, loopContext_, strictMode_, seen)
    ELSE visitAll(IF result.val THEN node.consequent
                  ELSE IF node.alternate.type = "Array" THEN node.alternate.body ELSE <<>>,
                  variables_, loopContext_, strictMode_, seen, <<>>)])

\* the for loop of visitFor from index i on, results_ the outputs pushed so far
RECURSIVE ForLoop(_, _, _, _, _, _, _, _)
ForLoop(node, array, i, variables_, loopContext_, strictMode_, trace_, results_) ==
  IF i >= Len(array) THEN Returned(Ok(Join(results_, <<>>)), loopContext_, trace_)
  ELSE With([output \in {visitAll(node.body, variables_,
                                  SetAll(loopContext_, forBindings(node.itemName, array, i)),
                                  strictMode_, trace_, <<>>)} |->
         IF output.kind # "ok" THEN output
         ELSE ForLoop(node, array, i + 1, variables_, output.loopContext, strictMode_, output.trace,
                      Append(results_, output.out))])

\* a visitFor that runs its body once over a value that is no array
visitForSingleItem(node, variables_, loopContext_, strictMode_, trace_) ==
  LET iterable == resolveNestedPath(node.iterable, FALSE, variables_, loopContext_, strictMode_)
      seen == Append(trace_, Visited(node, loopContext_))
      array == tryCoerceToArray(iterable.v)
      looped == ForLoop(node, IF array = Null THEN <<iterable.v>> ELSE array.v, 0, variables_, loopContext_,
                        strictMode_, seen, <<>>)
  IN IF iterable.err
     THEN Returned(Throw("MissingVariableError", node.iterable[1], MapKeys(variables_)), loopContext_, seen)
     ELSE IF looped.kind # "ok" THEN looped ELSE [looped EXCEPT !.loopContext = <<>>]

\* a visitFor that leaves the loop context as it found it
visitForScoped(node, variables_, loopContext_, strictMode_, trace_) ==
  With([iterable \in {resolveNestedPath(node.iterable, FALSE, variables_, loopContext_, strictMode_)},
        seen \in {Append(trace_, Visited(node, loopContext_))} |->
    IF iterable.err
    THEN Returned(Throw("MissingVariableError", node.iterable[1], MapKeys(variables_)), loopContext_, seen)
    ELSE With([array \in {tryCoerceToArray(iterable.v)} |->
      IF array = Null
      THEN Returned(IF strictMode_
                    THEN ThrowAt("TypeError", <<"C","a","n","n","o","t"," ","i","t","e","r","a","t","e"," ","o","v","e","r"," ","n","o","n","-","a","r","r","a","y"," ","v","a","l","u","e">>, node.line, node.column)
                    ELSE Ok(<<>>),
                    loopContext_, seen)
      ELSE With([looped \in {ForLoop(node, array.v, 0, variables_, loopContext_, strictMode_, seen, <<>>)} |->
             IF looped.kind # "ok" THEN looped ELSE [looped EXCEPT !.loopContext = loopContext_]])])])

visitFor(node, variables_, loopContext_, strictMode_, trace_) ==
  With([iterable \in {resolveNestedPath(node.iterable, FALSE, variables_, loopContext_, strictMode_)},
        seen \in {Append(trace_, Visited(node, loopContext_))} |->
    IF iterable.err
    THEN Returned(Throw("MissingVariableError", node.iterable[1], MapKeys(variables_)), loopContext_, seen)
    ELSE With([array \in {tryCoerceToArray(iterable.v)} |->
      IF array = Null
      THEN Returned(IF strictMode_
                    THEN ThrowAt("TypeError", <<"C","a","n","n","o","t"," ","i","t","e","r","a","t","e"," ","o","v","e","r"," ","n","o","n","-","a","r","r","a","y"," ","v","a","l","u","e">>, node.line, node.column)
                    ELSE Ok(<<>>),
                    loopContext_, seen)
      ELSE With([looped \in {ForLoop(node, array.v, 0, variables_, loopContext_, strictMode_, seen, <<>>)} |->
             IF looped.kind # "ok" THEN looped ELSE [looped EXCEPT !.loopContext = <<>>]])])])

\* a visitCase that renders every WHEN clause whose value matches
visitCaseEveryMatch(node, variables_, loopContext_, strictMode_, trace_) ==
  LET value == resolveNestedPath(Split(node.expression, <<".">>), FALSE, variables_, loopContext_, strictMode_)
      seen == Append(trace_, Visited(node, loopContext_))
      matching == SelectSeq(node.cases, LAMBDA when : when.value = valueToString(value.v))
      bodies == IF matching = <<>> THEN (IF node.default.type = "null" THEN <<>> ELSE node.default.body)
                ELSE Join([k \in 1..Len(matching) |-> matching[k].body], <<>>)
  IN IF value.err
     THEN Returned(Throw("MissingVariableError", Split(node.expression, <<".">>)[1], MapKeys(variables_)),
                   loopContext_, seen)
     ELSE visitAll(bodies, variables_, loopContext_, strictMode_, seen, <<>>)

visitCase(node, variables_, loopContext_, strictMode_, trace_) ==
  With([value \in {resolveNestedPath(Split(node.expression, <<".">>), FALSE, variables_, loopContext_,
                                     strictMode_)},
        seen \in {Append(trace_, Visited(node, loopContext_))} |->
    IF value.err
    THEN Returned(Throw("MissingVariableError", Split(node.expression, <<".">>)[1], MapKeys(variables_)),
                  loopContext_, seen)
    ELSE With([valueStr \in {valueToString(value.v)} |->
      With([matching \in {{k \in 1..Len(node.cases) : node.cases[k].value = valueStr}} |->
        visitAll(IF matching # {} THEN node.cases[SetMin(matching)].body
                 ELSE IF node.default.type # "null" THEN node.default.body
                 ELSE <<>>,
                 variables_, loopContext_, strictMode_, seen, <<>>)])])])

RECURSIVE visitList(_, _, _, _, _, _)

\* the loop of visitListItem over node.content from the k-th child on, content
\* what it has put together so far
RECURSIVE ListItemContent(_, _, _, _, _, _, _, _)
ListItemContent(children, k, depth, variables_, loopContext_, strictMode_, trace_, content) ==
  IF k > Len(children) THEN Returned(Ok(content), loopContext_, trace_)
  ELSE With([nested \in {children[k].type = "List"} |->
    With([child \in {IF nested
                     THEN visitList(children[k], depth + 1, variables_, loopContext_, strictMode_, trace_)
                     ELSE visit(children[k], variables_, loopContext_, strictMode_, trace_)} |->
      IF child.kind # "ok" THEN child
      ELSE ListItemContent(children, k + 1, depth, variables_, child.loopContext, strictMode_, child.trace,
                           content \o (IF nested THEN <<"\n">> ELSE <<>>) \o child.out)])])

\* skip = TRUE when visitListItem returns null; the counter it is passed is
\* not used
visitListItem(node, depth, variables_, loopContext_, strictMode_, trace_) ==
  With([result \in {IF node.condition = <<>> THEN [err |-> FALSE, val |-> TRUE]
                    ELSE evaluateCondition(node.condition, getAllVariables(variables_, loopContext_))} |->
    IF result.err
    THEN [skip |-> FALSE, r |-> Returned(Throw("TypeError", node.condition, <<>>), loopContext_, trace_)]
    ELSE IF ~result.val
    THEN [skip |-> node.fallback = <<>>, r |-> Returned(Ok(node.fallback), loopContext_, trace_)]
    ELSE With([content \in {ListItemContent(node.content, 1, depth, variables_, loopContext_, strictMode_,
                                            trace_, <<>>)} |->
           [skip |-> FALSE, r |-> IF content.kind # "ok" THEN content
                                  ELSE [content EXCEPT !.out = Trim(content.out)]]])])

\* a visitList whose counter counts every item, rendered or not
RECURSIVE ListLoopCountAll(_, _, _, _, _, _, _, _, _)
ListLoopCountAll(node, k, counter, depth, variables_, loopContext_, strictMode_, trace_, results_) ==
  IF k > Len(node.items) THEN Returned(Ok(Join(results_, <<"\n">>)), loopContext_, trace_)
  ELSE LET output == visitListItem(node.items[k], depth, variables_, loopContext_, strictMode_, trace_)
       IN IF output.r.kind # "ok" THEN output.r
          ELSE ListLoopCountAll(node, k + 1, counter + 1, depth, variables_, output.r.loopContext, strictMode_,
                                output.r.trace,
                                IF output.skip THEN results_
                                ELSE Append(results_, Join([j \in 1..depth |-> <<" "," "," ">>], <<>>)
                                                        \o NatStr(counter) \o <<"."," ">> \o output.r.out))

\* the for loop of visitList from the k-th item on
RECURSIVE ListLoop(_, _, _, _, _, _, _, _, _)
ListLoop(node, k, counter, depth, variables_, loopContext_, strictMode_, trace_, results_) ==
  IF k > Len(node.items) THEN Returned(Ok(Join(results_, <<"\n">>)), loopContext_, trace_)
  ELSE With([output \in {visitListItem(node.items[k], depth, variables_, loopContext_, strictMode_, trace_)} |->
         IF output.r.kind # "ok" THEN output.r
         ELSE ListLoop(node, k + 1, IF output.skip THEN counter ELSE counter + 1, depth, variables_,
                       output.r.loopContext, strictMode_, output.r.trace,
                       IF output.skip THEN results_
                       ELSE Append(results_, Join([j \in 1..depth |-> <<" "," "," ">>], <<>>)
                                               \o NatStr(counter) \o <<"."," ">> \o output.r.out))])

visitList(node, depth, variables_, loopContext_, strictMode_, trace_) ==
  ListLoop(node, 1, 1, depth, variables_, loopContext_, strictMode_, Append(trace_, Visited(node, loopContext_)),
           <<>>)

\* processCellsArray from the k-th cell on, strings the cells rendered so far;
\* out |-> the strings
RECURSIVE processCellsArray(_, _, _, _, _, _, _)
processCellsArray(cells, k, variables_, loopContext_, strictMode_, trace_, strings) ==
  IF k > Len(cells) THEN Returned(Ok(strings), loopContext_, trace_)
  ELSE With([content \in {visitAll(cells[k], variables_, loopContext_, strictMode_, trace_, <<>>)} |->
         IF content.kind # "ok" THEN content
         ELSE processCellsArray(cells, k + 1, variables_, content.loopContext, strictMode_, content.trace,
                                Append(strings, Trim(content.out)))])

\* the loop of visitTable over the body of a FOR from the b-th node on, rows
\* the rows pushed so far; out |-> the rows
RECURSIVE TableForBody(_, _, _, _, _, _, _)
TableForBody(body, b, variables_, loopContext_, strictMode_, trace_, rows) ==
  IF b > Len(body) THEN Returned(Ok(rows), loopContext_, trace_)
  ELSE IF body[b].type = "TableRow"
  THEN With([cells \in {processCellsArray(body[b].cells, 1, variables_, loopContext_, strictMode_, trace_,
                                          <<>>)} |->
         IF cells.kind # "ok" THEN cells
         ELSE TableForBody(body, b + 1, variables_, cells.loopContext, strictMode_, cells.trace,
                           Append(rows, cells.out))])
  ELSE With([forOutput \in {visit(body[b], variables_, loopContext_, strictMode_, trace_)} |->
         IF forOutput.kind # "ok" THEN forOutput
         ELSE TableForBody(body, b + 1, variables_, forOutput.loopContext, strictMode_, forOutput.trace,
                           IF Trim(forOutput.out) # <<>>
                           THEN Append(rows, TrimAll(Split(forOutput.out, <<"|">>)))
                           ELSE rows)])

\* the loop of visitTable over the array of a FOR from index i on
RECURSIVE TableForLoop(_, _, _, _, _, _, _, _)
TableForLoop(forNode, array, i, variables_, loopContext_, strictMode_, trace_, rows) ==
  IF i >= Len(array) THEN Returned(Ok(rows), loopContext_, trace_)
  ELSE With([pushed \in {TableForBody(forNode.body, 1, variables_,
                                      SetAll(loopContext_, forBindings(forNode.itemName, array, i)),
                                      strictMode_, trace_, rows)} |->
         IF pushed.kind # "ok" THEN pushed
         ELSE TableForLoop(forNode, array, i + 1, variables_, pushed.loopContext, strictMode_, pushed.trace,
                           pushed.out)])

\* whether visitTable takes the row for a FOR that generates rows
IsForRow(rowNode) ==
  /\ Len(rowNode.cells) = 1
  /\ Len(rowNode.cells[1]) = 1
  /\ rowNode.cells[1][1].type = "For"

\* the loop of visitTable over node.rows from the k-th row on
RECURSIVE TableRowLoop(_, _, _, _, _, _, _)
TableRowLoop(node, k, variables_, loopContext_, strictMode_, trace_, rows) ==
  IF k > Len(node.rows) THEN Returned(Ok(rows), loopContext_, trace_)
  ELSE IF IsForRow(node.rows[k])
  THEN With([forNode \in {node.rows[k].cells[1][1]} |->
    With([iterable \in {resolveNestedPath(forNode.iterable, FALSE, variables_, loopContext_, strictMode_)} |->
      IF iterable.err
      THEN Returned(Throw("MissingVariableError", forNode.iterable[1], MapKeys(variables_)), loopContext_,
                    trace_)
      ELSE With([array \in {tryCoerceToArray(iterable.v)} |->
        IF array = Null
        THEN TableRowLoop(node, k + 1, variables_, loopContext_, strictMode_, trace_, rows)
        ELSE With([looped \in {TableForLoop(forNode, array.v, 0, variables_, loopContext_, strictMode_,
                                            trace_, rows)} |->
          IF looped.kind # "ok" THEN looped
          ELSE TableRowLoop(node, k + 1, variables_, <<>>, strictMode_, looped.trace, looped.out)])])])])
  ELSE With([cells \in {processCellsArray(node.rows[k].cells, 1, variables_, loopContext_, strictMode_,
                                          trace_, <<>>)} |->
         IF cells.kind # "ok" THEN cells
         ELSE TableRowLoop(node, k + 1, variables_, cells.loopContext, strictMode_, cells.trace,
                           Append(rows, cells.out))])

\* the rows of visitTable before they are padded: the header, then node.rows
TableMatrix(node, variables_, loopContext_, strictMode_, trace_) ==
  IF node.header = NoHeader
  THEN TableRowLoop(node, 1, variables_, loopContext_, strictMode_, trace_, <<>>)
  ELSE With([headerCells \in {processCellsArray(node.header.cells, 1, variables_, loopContext_, strictMode_,
                                                trace_, <<>>)} |->
         IF headerCells.kind # "ok" THEN headerCells
         ELSE TableRowLoop(node, 1, variables_, headerCells.loopContext, strictMode_, headerCells.trace,
                           <<headerCells.out>>)])

\* row.push("") while the row is shorter than maxCols
PadRow(row, maxCols) == [c \in 1..SetMax({Len(row), maxCols}) |-> IF c <= Len(row) THEN row[c] ELSE <<>>]

\* one cell of the separator row, idx counted from 1
TableSeparator(node, cell, idx) ==
  With([align \in {IF idx <= Len(node.alignment) /\ node.alignment[idx] # <<>>
                   THEN node.alignment[idx] ELSE <<"l","e","f","t">>},
        hyphens \in {[j \in 1..SetMax({5, Len(cell)}) |-> "-"]} |->
    CASE align = <<"c","e","n","t","e","r">> -> <<":">> \o hyphens \o <<":">>
      [] align = <<"r","i","g","h","t">> -> hyphens \o <<":">>
      [] OTHER -> <<":">> \o hyphens])

TableLine(row) == <<"|"," ">> \o Join(row, <<" ","|"," ">>) \o <<" ","|">>

\* the markdown visitTable builds of the rows, padded or not
TableLines(node, rows) ==
  IF node.hasHeader /\ Len(rows) > 0
  THEN <<TableLine(rows[1]),
         <<"|">> \o Join([idx \in 1..Len(rows[1]) |-> TableSeparator(node, rows[1][idx], idx)], <<"|">>) \o <<"|">>>>
       \o [i \in 1..(Len(rows) - 1) |-> TableLine(rows[i + 1])]
  ELSE [i \in 1..Len(rows) |-> TableLine(rows[i])]

\* a visitTable that leaves the rows as long as they are
visitTableUnpadded(node, variables_, loopContext_, strictMode_, trace_) ==
  With([rows \in {TableMatrix(node, variables_, loopContext_, strictMode_,
                             Append(trace_, Visited(node, loopContext_)))} |->
    IF rows.kind # "ok" THEN rows
    ELSE [rows EXCEPT !.out = Join(TableLines(node, rows.out), <<"\n">>)]])

\* Math.max() of no rows is -Infinity: there is no row to pad then
visitTable(node, variables_, loopContext_, strictMode_, trace_) ==
  With([rows \in {TableMatrix(node, variables_, loopContext_, strictMode_,
                             Append(trace_, Visited(node, loopContext_)))} |->
    IF rows.kind # "ok" THEN rows
    ELSE With([maxCols \in {SetMax({Len(rows.out[r]) : r \in 1..Len(rows.out)} \cup {0})} |->
      [rows EXCEPT !.out = Join(TableLines(node, [r \in 1..Len(rows.out) |-> PadRow(rows.out[r], maxCols)]),
                                <<"\n">>)]])])

\* visitTernary is not part of this model: the Parser builds no TernaryNode.
\* A HeaderNode or TableRowNode outside a table is the default of the switch.
visit(node, variables_, loopContext_, strictMode_, trace_) ==
  CASE node.type = "Text" -> Returned(Ok(node.content), loopContext_, Append(trace_, Visited(node, loopContext_)))
    [] node.type = "Variable" ->
         Returned(visitVariable(node, variables_, loopContext_, strictMode_), loopContext_,
                  Append(trace_, Visited(node, loopContext_)))
    [] node.type = "If" -> visitIf(node, variables_, loopContext_, strictMode_, trace_)
    [] node.type = "Case" -> visitCase(node, variables_, loopContext_, strictMode_, trace_)
    [] node.type = "List" -> visitList(node, 0, variables_, loopContext_, strictMode_, trace_)
    [] node.type = "For" -> visitFor(node, variables_, loopContext_, strictMode_, trace_)
    [] node.type = "Table" -> visitTable(node, variables_, loopContext_, strictMode_, trace_)
    [] node.type = "Comment" -> Returned(Ok(<<>>), loopContext_, Append(trace_, Visited(node, loopContext_)))
    [] OTHER -> Returned(Ok(<<>>), loopContext_, Append(trace_, Visited(node, loopContext_)))

----------------------------------------------------------------------------
(* SpecCond: one call of evaluateCondition, as visitIf makes it *)

\* the longest chain of operands, and the most operands of a generated expression
MaxOperands == 3

\* the caller's variables of the conditions below; x is bound per run
CondVariables ==
  << <<<<"t">>, Bool(TRUE)>>, <<<<"f">>, Bool(FALSE)>>, <<<<"n">>, IntV(7)>>, <<<<"s">>, Str(<<"1","0">>)>>,
     <<<<"w">>, Str(<<" ","5"," ">>)>>, <<<<"m">>, Str(<<"a","b","c">>)>>, <<<<"e">>, Str(<<>>)>>, <<<<"z">>, Null>>,
     <<<<"a">>, Arr(<<IntV(1)>>)>>, <<<<"o">>, Obj(<<<<<<"k">>, IntV(3)>>>>)>>,
     <<<<"q">>, NumV(<<0, 0>>)>>, <<<<"h">>, NumV(<<5, 2>>)>> >>

\* operands of a comparison: the text and the value it stands for
Operands ==
  << [text |-> <<"t">>, val |-> Bool(TRUE)], [text |-> <<"n">>, val |-> IntV(7)],
     [text |-> <<"s">>, val |-> Str(<<"1","0">>)], [text |-> <<"w">>, val |-> Str(<<" ","5"," ">>)],
     [text |-> <<"m">>, val |-> Str(<<"a","b","c">>)], [text |-> <<"e">>, val |-> Str(<<>>)],
     [text |-> <<"z">>, val |-> Null], [text |-> <<"a">>, val |-> Arr(<<IntV(1)>>)],
     [text |-> <<"o">>, val |-> Obj(<<<<<<"k">>, IntV(3)>>>>)], [text |-> <<"q">>, val |-> NumV(<<0, 0>>)],
     [text |-> <<"h">>, val |-> NumV(<<5, 2>>)], [text |-> <<"u">>, val |-> Undef],
     [text |-> <<"o",".","k">>, val |-> IntV(3)], [text |-> <<"a",".","0">>, val |-> IntV(1)],
     [text |-> <<"5">>, val |-> IntV(5)], [text |-> <<"-","3">>, val |-> IntV(-3)],
     [text |-> <<"2",".","5">>, val |-> NumV(<<5, 2>>)], [text |-> <<"\"","1","0","\"">>, val |-> Str(<<"1","0">>)],
     [text |-> <<"\"","5","\"">>, val |-> Str(<<"5">>)], [text |-> <<"'","a","b","c","'">>, val |-> Str(<<"a","b","c">>)],
     [text |-> <<"n","u","l","l">>, val |-> Null] >>

\* bindings of x: bound says whether the caller binds x at all
XValues ==
  << [bound |-> FALSE, val |-> Undef], [bound |-> TRUE, val |-> Null],
     [bound |-> TRUE, val |-> Str(<<"a","b","c">>)], [bound |-> TRUE, val |-> Str(<<>>)],
     [bound |-> TRUE, val |-> Arr(<<IntV(20)>>)], [bound |-> TRUE, val |-> Obj(<<>>)],
     [bound |-> TRUE, val |-> NumV(<<0, 0>>)], [bound |-> TRUE, val |-> IntV(20)],
     [bound |-> TRUE, val |-> Str(<<"1","9">>)], [bound |-> TRUE, val |-> IntV(3)],
     [bound |-> TRUE, val |-> Bool(TRUE)] >>

\* operands of AND / OR chains
LogicAtoms == <<<<"t">>, <<"f">>, <<"x"," ","i","s","N","u","m","b","e","r">>, <<"x"," ",">"," ","1","8">>>>

\* expressions of the condition grammar as trees, by number of operands; a
\* wrapper (NOT(...) or parentheses) holds an expression without wrappers
\*   or-expr ::= and-expr (" OR " and-expr)*     and-expr ::= unary (" AND " unary)*
\*   unary ::= t | f | "NOT(" or-expr ")" | "(" or-expr ")"
RECURSIVE UnaryTrees(_, _), AndTrees(_, _), OrTrees(_, _)
UnaryTrees(n, inside) ==
  (IF n = 1 THEN {<<"atom", <<"t">>>>, <<"atom", <<"f">>>>} ELSE {})
  \cup (IF inside THEN {} ELSE {<<w, e>> : w \in {"not", "par"}, e \in OrTrees(n, TRUE)})
AndTrees(n, inside) ==
  UnaryTrees(n, inside)
  \cup UNION {{<<"and", l, r>> : l \in AndTrees(k, inside), r \in UnaryTrees(n - k, inside)} : k \in 1..(n - 1)}
OrTrees(n, inside) ==
  AndTrees(n, inside)
  \cup UNION {{<<"or", l, r>> : l \in OrTrees(k, inside), r \in AndTrees(n - k, inside)} : k \in 1..(n - 1)}

\* (a OR b) AND (c OR d) over every choice of t and f
GroupedPairs ==
  {<<"and", <<"par", <<"or", a, b>>>>, <<"par", <<"or", c, d>>>>>> :
     a \in UnaryTrees(1, TRUE), b \in UnaryTrees(1, TRUE), c \in UnaryTrees(1, TRUE), d \in UnaryTrees(1, TRUE)}

RECURSIVE TreeText(_)
TreeText(tree) ==
  CASE tree[1] = "atom" -> tree[2]
    [] tree[1] = "not" -> <<"N","O","T","(">> \o TreeText(tree[2]) \o <<")">>
    [] tree[1] = "par" -> <<"(">> \o TreeText(tree[2]) \o <<")">>
    [] tree[1] = "and" -> TreeText(tree[2]) \o <<" ","A","N","D"," ">> \o TreeText(tree[3])
    [] OTHER -> TreeText(tree[2]) \o <<" ","O","R"," ">> \o TreeText(tree[3])

\* the text of a chain: atoms[1] ops[1] atoms[2] ...
RECURSIVE ChainText(_, _)
ChainText(atoms, ops) ==
  IF Len(atoms) = 1 THEN atoms[1]
  ELSE atoms[1] \o <<" ">> \o ops[1] \o <<" ">> \o ChainText(Tail(atoms), Tail(ops))

CondStart(g, text, x, strict) ==
  /\ pc = "evaluate"
  /\ given = g
  /\ template = text
  /\ variables = IF x.bound THEN Append(CondVariables, <<<<"x">>, x.val>>) ELSE CondVariables
  /\ strictMode = strict
  /\ loopContext = <<>>
  /\ tokens = <<>> /\ pos = 0 /\ line = 1 /\ column = 1
  /\ ast = <<>> /\ results = <<>> /\ trace = <<>> /\ outcome = <<>>

\* texts x is bound to and string literals x is compared with
QuotedTexts ==
  {<<"P","r","o","s"," ","A","N","D"," ","C","o","n","s">>, <<"a"," ","O","R"," ","b">>, <<"a"," ","O","R"," ","b"," ","A","N","D"," ","c">>, <<"P","r","o","s">>, <<"C","o","n","s">>, <<"b">>, <<"A","N","D">>, <<"r","o","c","k"," ","A","N","D">>, <<"O","R","D","E","R"," ","B","Y">>,
   <<"u","n","d","e","f","i","n","e","d">>}

\* comparisons under both modes; chains and generated expressions under the
\* constructor's default, strictMode = true; x against a quoted literal
CondInit ==
  \/ \E x \in QuotedTexts, literal \in QuotedTexts, quote \in {<<"\"">>, <<"'">>}, strict \in BOOLEAN :
       CondStart([kind |-> "quoted", x |-> x, literal |-> literal],
                 <<"x"," ","=","="," ">> \o quote \o literal \o quote, [bound |-> TRUE, val |-> Str(x)], strict)
  \/ \E i \in 1..Len(Operands), j \in 1..Len(Operands), op \in {<<">">>, <<"<">>, <<">","=">>, <<"<","=">>},
        gap \in {<<" ">>, <<>>}, strict \in BOOLEAN :
       CondStart([kind |-> "compare", L |-> Operands[i].val, R |-> Operands[j].val, op |-> op],
                 Operands[i].text \o gap \o op \o gap \o Operands[j].text, XValues[1], strict)
  \/ \E n \in 2..MaxOperands, x \in 1..Len(XValues) :
       \E atoms \in [1..n -> 1..Len(LogicAtoms)], ops \in [1..(n - 1) -> {<<"A","N","D">>, <<"O","R">>}] :
         CondStart([kind |-> "chain", atoms |-> [k \in 1..n |-> LogicAtoms[atoms[k]]], ops |-> ops, x |-> XValues[x].val],
                   ChainText([k \in 1..n |-> LogicAtoms[atoms[k]]], ops), XValues[x], TRUE)
  \/ \E tree \in GroupedPairs \cup UNION {OrTrees(n, FALSE) : n \in 1..MaxOperands} :
       CondStart([kind |-> "tree", tree |-> tree], TreeText(tree), XValues[1], TRUE)

\* visitIf's call: evaluateCondition(node.condition, this.getAllVariables())
CondEvaluate ==
  /\ pc = "evaluate"
  /\ outcome' = evaluateCondition(template, getAllVariables(variables, loopContext))
  /\ pc' = "done"
  /\ UNCHANGED <<template, variables, strictMode, loopContext, tokens, pos, ast, given, line, column, results, trace>>

CondNext == CondEvaluate

SpecCond == CondInit /\ [][CondNext]_vars

----------------------------------------------------------------------------
(* Properties of SpecCond *)

\* C6: a comparison L op R with op one of > < >= <= raises the TypeError exactly
\* when L or R is not coercible by tryCoerceToNumber, in strict and in lenient
\* mode alike; otherwise its result is the numeric comparison of the coerced
\* values (so "10" against "5" compares as numbers).
C6_NumericComparison ==
  (pc = "done" /\ given.kind = "compare") =>
    LET l == tryCoerceToNumber(given.L)
        r == tryCoerceToNumber(given.R)
        diff == l.v[1] * r.v[2] - r.v[1] * l.v[2]
    IN IF l = Null \/ r = Null THEN outcome.err
       ELSE /\ ~outcome.err
            /\ outcome.val = CASE given.op = <<">">> -> diff > 0
                               [] given.op = <<"<">> -> diff < 0
                               [] given.op = <<">","=">> -> diff >= 0
                               [] OTHER -> diff <= 0

\* lenient mode, "abc" against a number: the TypeError is raised all the same
C6_Witness ==
  /\ pc = "done" /\ given.kind = "compare" /\ ~strictMode
  /\ given.L = Str(<<"a","b","c">>) /\ given.R = IntV(5)
  /\ outcome.err

\* what an operand of a chain evaluates to when x is bound to xv:
\* "T", "F", or "E" for the TypeError
AtomWant(atom, xv) ==
  LET num == tryCoerceToNumber(xv)
  IN CASE atom = <<"t">> -> "T"
       [] atom = <<"f">> -> "F"
       [] atom = <<"x"," ","i","s","N","u","m","b","e","r">> -> IF num # Null THEN "T" ELSE "F"
       [] OTHER -> IF num = Null THEN "E" ELSE IF num.v[1] > 18 * num.v[2] THEN "T" ELSE "F"

\* the reference evaluation of a chain from operand i on: AND binds tighter than
\* OR, operands are taken left to right, an AND group stops at its first false
\* operand and the chain at its first true group. seen lists the operands taken.
RECURSIVE ChainWant(_, _, _, _)
ChainWant(atoms, ops, xv, i) ==
  LET want == AtomWant(atoms[i], xv)
      later == {j \in i..(Len(atoms) - 1) : ops[j] = <<"O","R">>}
      rest == ChainWant(atoms, ops, xv, IF want = "T" THEN i + 1 ELSE SetMin(later) + 1)
  IN IF want = "E" THEN [err |-> TRUE, val |-> FALSE, seen |-> <<atoms[i]>>]
     ELSE IF want = "T" /\ (i = Len(atoms) \/ ops[i] = <<"O","R">>) THEN [err |-> FALSE, val |-> TRUE, seen |-> <<atoms[i]>>]
     ELSE IF want = "F" /\ later = {} THEN [err |-> FALSE, val |-> FALSE, seen |-> <<atoms[i]>>]
     ELSE [err |-> rest.err, val |-> rest.val, seen |-> <<atoms[i]>> \o rest.seen]

\* the operands among the conditions a call evaluated, in evaluation order
OperandsEvaluated == SelectSeq(outcome.log, LAMBDA e : \E k \in 1..Len(LogicAtoms) : e = LogicAtoms[k])

\* C7: AND and OR short-circuit. In A AND B with A false, and in A OR B with A
\* true, B is never evaluated and a TypeError B would raise is not raised;
\* x isNumber AND x > 18 is false without error for every x that is not a
\* number; the operands of a chain are evaluated left to right.
C7_ShortCircuit ==
  (pc = "done" /\ given.kind = "chain") =>
    LET want == ChainWant(given.atoms, given.ops, given.x, 1)
    IN /\ outcome.err = want.err
       /\ outcome.val = want.val
       /\ OperandsEvaluated = want.seen
       /\ (Len(given.atoms) = 2 /\ AtomWant(given.atoms[1], given.x) = (IF given.ops[1] = <<"A","N","D">> THEN "F" ELSE "T"))
            => (~outcome.err /\ OperandsEvaluated = <<given.atoms[1]>>)
       /\ (template = <<"x"," ","i","s","N","u","m","b","e","r"," ","A","N","D"," ","x"," ",">"," ","1","8">> /\ tryCoerceToNumber(given.x) = Null)
            => (~outcome.err /\ ~outcome.val)

\* x = "abc": the guard is false and x > 18, which would raise, is not evaluated
C7_Witness ==
  /\ pc = "done" /\ given.kind = "chain"
  /\ template = <<"x"," ","i","s","N","u","m","b","e","r"," ","A","N","D"," ","x"," ",">"," ","1","8">> /\ given.x = Str(<<"a","b","c">>)
  /\ ~outcome.err /\ ~outcome.val
  /\ OperandsEvaluated = <<<<"x"," ","i","s","N","u","m","b","e","r">>>>

RECURSIVE TreeValue(_)
TreeValue(tree) ==
  CASE tree[1] = "atom" -> tree[2] = <<"t">>
    [] tree[1] = "not" -> ~TreeValue(tree[2])
    [] tree[1] = "par" -> TreeValue(tree[2])
    [] tree[1] = "and" -> TreeValue(tree[2]) /\ TreeValue(tree[3])
    [] OTHER -> TreeValue(tree[2]) \/ TreeValue(tree[3])

\* C8: parentheses and NOT() bind tightest and AND binds tighter than OR: the
\* text of an expression of the grammar evaluates to the value of its tree
\* (a AND b OR c is (a AND b) OR c, a OR b AND c is a OR (b AND c)).
C8_Precedence ==
  (pc = "done" /\ given.kind = "tree") =>
    (~outcome.err /\ outcome.val = TreeValue(given.tree))

\* t OR f AND f is true: read as (t OR f) AND f it would be false
C8_Witness ==
  /\ pc = "done" /\ given.kind = "tree"
  /\ template = <<"t"," ","O","R"," ","f"," ","A","N","D"," ","f">>
  /\ outcome.val


\* the literal holds an AND or an OR between spaces
HoldsOperator(literal) == Includes(literal, <<" ","A","N","D"," ">>) \/ Includes(literal, <<" ","O","R"," ">>)

\* C29: a quoted string literal is an atom of a condition: an AND or an OR
\* between spaces inside the quotes is not treated as a logical operator, so
\* the comparison x == "literal" receives the whole literal and is true
\* exactly when the string form of x equals it.
C29_QuotedLiteralAtom ==
  (pc = "done" /\ given.kind = "quoted") => (~outcome.err /\ outcome.val = (given.x = given.literal))

\* what of C29 evaluateCondition does: the comparison with a literal that
\* holds no such operator is true exactly when x equals the literal
C29_QuotedLiteralWithoutOperator ==
  (pc = "done" /\ given.kind = "quoted" /\ ~HoldsOperator(given.literal)) =>
    (~outcome.err /\ outcome.val = (given.x = given.literal))

\* a literal that holds an operator is cut at it, and the comparison of x
\* with that very text is false
C29_QuotedLiteralCut ==
  /\ pc = "done" /\ given.kind = "quoted"
  /\ template = <<"x"," ","=","="," ","\"","P","r","o","s"," ","A","N","D"," ","C","o","n","s","\"">> /\ given.x = <<"P","r","o","s"," ","A","N","D"," ","C","o","n","s">>
  /\ ~outcome.err /\ ~outcome.val
----------------------------------------------------------------------------
(* SpecVar: one ${{ ... }} substitution, from Parser.parseVariable through    *)
(* Interpreter.visitVariable, the loop of tokenizeMath taken pass by pass.   *)
(* template holds the text between the braces.                               *)

\* the most pieces an arithmetic expression is put together from
MaxPieces == 3

\* the caller's variables and a loop context as visitFor leaves it in a body
VarVariables ==
  << <<<<"t","e","x","t">>, Str(<<" "," ","h","i"," "," ">>)>>, <<<<"a">>, IntV(1)>>, <<<<"m">>, Str(<<"a","b","c">>)>>, <<<<"n","u","l">>, Null>>,
     <<<<"u","n","d">>, Undef>>, <<<<"e","m","p","t","y">>, Str(<<>>)>>, <<<<"u","s","e","r">>, Obj(<<<<<<"n","a","m","e">>, Str(<<"A","n","n">>)>>>>)>>,
     <<<<"i","t","e","m">>, Str(<<"o","u","t","e","r">>)>> >>
VarLoopContext ==
  << <<<<"i","t","e","m">>, Null>>, <<<<"@","i","n","d","e","x","0">>, IntV(0)>>, <<<<"@","i","n","d","e","x","1">>, IntV(1)>>, <<<<"@","f","i","r","s","t">>, Bool(TRUE)>>,
     <<<<"@","l","a","s","t">>, Bool(TRUE)>>, <<<<"@","n","o","t","F","i","r","s","t">>, Bool(FALSE)>>, <<<<"@","n","o","t","L","a","s","t">>, Bool(FALSE)>> >>

MathPieces == <<<<"a">>, <<"m">>, <<"1">>, <<"+">>, <<"-">>, <<"*">>, <<"/">>, <<"(">>, <<")">>, <<" ">>, <<"!">>>>
RootNames == <<<<"t","e","x","t">>, <<"n","u","l">>, <<"u","n","d">>, <<"e","m","p","t","y">>, <<"i","t","e","m">>, <<"u","s","e","r">>, <<"g","h","o","s","t">>, <<"m","y","-","v","a","r">>, <<"@","i","n","d","e","x","0">>>>
FilterNames == <<<<"t","r","i","m">>, <<"h","e","a","d","=","3">>, <<"e","s","c","a","p","e","_","m","d">>>>

\* what stands before the first "|": plain paths and arithmetic expressions
FilteredTexts == <<<<"t","e","x","t">>, <<"g","h","o","s","t">>, <<"u","s","e","r",".","n","a","m","e">>, <<"a"," ","+"," ","1">>, <<"(","a",")">>, <<"m"," ","-"," ","1">>, <<"2"," ","*"," ","3">>>>
\* filter segments applyFilter throws for: an unknown name, head and tail
\* without a parameter or with one that is no number
FailingFilters == <<<<"b","o","g","u","s">>, <<"h","e","a","d">>, <<"t","a","i","l">>, <<"h","e","a","d","=","a","b","c">>, <<"t","a","i","l","=","x">>, <<"h","e","a","d","=">>, <<"t","a","i","l",":","n","=","3">>>>

\* values a root is bound to: the first NotTruthyValues are not truthy
DefaultValues ==
  <<Null, Undef, Str(<<>>), Str(<<" "," ">>), Str(<<"f","a","l","s","e">>), Str(<<"0">>), Str(<<"n","o">>), Str(<<" ","N","o"," ">>), IntV(0),
    Bool(FALSE), Arr(<<>>), Obj(<<>>),
    Str(<<" ","a","*","b"," ">>), Str(<<"t","r","u","e">>), Str(<<"n","o","p","e">>), IntV(5), Bool(TRUE), Arr(<<IntV(1), Str(<<"x">>)>>),
    Obj(<<<<<<"k">>, IntV(1)>>>>)>>
DefaultLiterals == {<<>>, <<"d","*">>, <<" ","n","/","a"," ">>}

\* a variable expression: the path, then the filters and the default in the
\* order asked for
VariableText(path, filters, default, defaultFirst) ==
  LET fs == Join([k \in 1..Len(filters) |-> <<" ","|"," ">> \o filters[k]], <<>>)
      d == IF default = <<>> THEN <<>> ELSE <<" ","?","?"," ","\"">> \o default \o <<"\"">>
  IN IF defaultFirst THEN path \o d \o fs ELSE path \o fs \o d

VarStart(g, text, vs, lc, strict) ==
  /\ pc = "parse"
  /\ given = g
  /\ template = text
  /\ variables = vs
  /\ loopContext = lc
  /\ strictMode = strict
  /\ tokens = <<>> /\ pos = 0 /\ line = 1 /\ column = 1
  /\ ast = <<>> /\ results = <<>> /\ trace = <<>> /\ outcome = <<>>

VarInit ==
  \/ \E n \in 1..MaxPieces : \E pieces \in [1..n -> 1..Len(MathPieces)] :
       VarStart([kind |-> "math"], Join([k \in 1..n |-> MathPieces[pieces[k]]], <<>>),
                VarVariables, <<>>, TRUE)
  \/ \E r \in 1..Len(RootNames), hop \in {<<>>, <<".","n","a","m","e">>, <<".","0">>}, filter \in {<<>>, <<<<"t","r","i","m">>>>},
        vs \in {VarVariables, <<>>}, lc \in {VarLoopContext, <<>>}, strict \in BOOLEAN :
       VarStart([kind |-> "path", root |-> RootNames[r]],
                VariableText(RootNames[r] \o hop, filter, <<>>, FALSE), vs, lc, strict)
  \/ \E r \in {<<"t","e","x","t">>, <<"n","u","l">>, <<"e","m","p","t","y">>, <<"g","h","o","s","t">>}, n \in 0..2, default \in {<<>>, <<"n","o","n","e">>, <<"a","|","b">>},
        defaultFirst \in BOOLEAN, strict \in BOOLEAN :
       \E fs \in [1..n -> 1..Len(FilterNames)] :
         VarStart([kind |-> "order", root |-> r, filters |-> [k \in 1..n |-> FilterNames[fs[k]]],
                   default |-> default, defaultFirst |-> defaultFirst],
                  VariableText(r, [k \in 1..n |-> FilterNames[fs[k]]], default, defaultFirst),
                  VarVariables, <<>>, strict)
  \/ \E v \in 0..Len(DefaultValues), d \in DefaultLiterals, n \in 0..2, strict \in BOOLEAN :
       \E fs \in [1..n -> 1..Len(FilterNames)] :
         VarStart([kind |-> "default", bound |-> v # 0, value |-> IF v = 0 THEN Undef ELSE DefaultValues[v],
                   default |-> d, filters |-> [k \in 1..n |-> FilterNames[fs[k]]]],
                  VariableText(<<"v"," ","?","?"," ","\"">> \o d \o <<"\"">>, [k \in 1..n |-> FilterNames[fs[k]]], <<>>, FALSE),
                  IF v = 0 THEN <<<<<<"w">>, IntV(1)>>>> ELSE <<<<<<"w">>, IntV(1)>>, <<<<"v">>, DefaultValues[v]>>>>,
                  <<>>, strict)
  \/ \E e \in 1..Len(FilteredTexts), f \in 1..Len(FailingFilters), before \in {<<>>, <<<<"t","r","i","m">>>>},
        vs \in {VarVariables, <<>>}, strict \in BOOLEAN :
       VarStart([kind |-> "filter", text |-> FilteredTexts[e], filter |-> FailingFilters[f]],
                VariableText(FilteredTexts[e], before \o <<FailingFilters[f]>>, <<>>, FALSE),
                vs, <<>>, strict)

\* Parser.parseVariable
VarParse ==
  /\ pc = "parse"
  /\ ast' = parseVariableExpression(template)
  /\ pc' = "visit"
  /\ UNCHANGED <<template, variables, strictMode, loopContext, tokens, pos, outcome, given, line, column, results, trace>>

\* node.path.join(".")
PathStr == Join(ast.path, <<".">>)

\* visitVariable up to the call of evaluateMathExpression
VarVisit ==
  /\ pc = "visit"
  /\ pc' = IF isMathExpression(PathStr) THEN "while" ELSE "resolve"
  /\ tokens' = <<>>
  /\ pos' = 0
  /\ UNCHANGED <<template, variables, strictMode, loopContext, ast, outcome, given, line, column, results, trace>>

\* tokenizeMath: the test of its while loop
VarWhile ==
  /\ pc = "while"
  /\ pc' = IF pos < Len(PathStr) THEN "body" ELSE "evaluate"
  /\ UNCHANGED <<template, variables, strictMode, loopContext, tokens, pos, ast, outcome, given, line, column, results, trace>>

\* tokenizeMath: the body of its while loop; visitVariable catches the TypeError
VarBody ==
  /\ pc = "body"
  /\ \E pass \in {tokenizeMathBody(PathStr, getAllVariables(variables, loopContext), pos, tokens)} :
       /\ pc' = IF pass.err THEN "resolve" ELSE "while"
       /\ pos' = pass.i
       /\ tokens' = pass.tokens
  /\ UNCHANGED <<template, variables, strictMode, loopContext, ast, outcome, given, line, column, results, trace>>

\* evaluateMathTokens and String(result); visitVariable catches the TypeError
VarEvaluate ==
  /\ pc = "evaluate"
  /\ \E result \in {evaluateMathTokens(tokens)} :
       /\ pc' = IF result.err THEN "resolve" ELSE "done"
       /\ outcome' = IF result.err THEN outcome ELSE Ok(NumStr(result.v))
  /\ UNCHANGED <<template, variables, strictMode, loopContext, tokens, pos, ast, given, line, column, results, trace>>

\* visitVariable from the path resolution on
VarResolve ==
  /\ pc = "resolve"
  /\ outcome' = visitVariablePath(ast, variables, loopContext, strictMode)
  /\ pc' = "done"
  /\ UNCHANGED <<template, variables, strictMode, loopContext, tokens, pos, ast, given, line, column, results, trace>>

VarNext == VarParse \/ VarVisit \/ VarWhile \/ VarBody \/ VarEvaluate \/ VarResolve

SpecVar == VarInit /\ [][VarNext]_vars

----------------------------------------------------------------------------
(* Properties of SpecVar *)

\* C1: the arithmetic path of a Variable node terminates for every expression
\* string. The loop of tokenizeMath is deterministic and reads nothing but
\* expr, i and tokens, so it terminates exactly when no pass through its body
\* comes back to the loop test with i and tokens as they were.
C1_Terminates ==
  [][pc = "body" => ~(pc' = "while" /\ pos' = pos /\ tokens' = tokens)]_vars

\* the value the root name of the reference is bound to, the overlay first
RootBinding ==
  IF MapHas(loopContext, given.root) THEN MapGet(loopContext, given.root)
  ELSE MapGet(variables, given.root)

RootIsBound == MapHas(loopContext, given.root) \/ MapHas(variables, given.root)

ParsedAsWritten ==
  /\ ast.path = <<given.root>>
  /\ ast.defaultValue = (IF given.default = <<>> THEN Undef ELSE Str(given.default))
  /\ [k \in 1..Len(ast.filters) |-> ast.filters[k].name] = given.filters

\* the expressions C10 speaks of: their default literal holds no "|", and a
\* rendering is expected of those whose root is bound or that give a default
OrderCase(defaultFirst) ==
  /\ given.kind = "order" /\ given.defaultFirst = defaultFirst
  /\ ~Includes(given.default, <<"|">>)

Renderable == MapHas(variables, given.root) \/ given.default # <<>>

\* C10 as stated: path, then "| filter" segments, then ?? "default" parses
\* into that path, those filters and that default, and renders without error.
C10_FiltersThenDefault ==
  (OrderCase(FALSE) /\ pc # "parse") =>
    /\ ParsedAsWritten
    /\ (pc = "done" /\ Renderable) => outcome.kind = "ok"

\* C10: path, then an optional ?? "default" whose literal holds no "|", then
\* "| filter" segments, parses into that path, that default and those filters,
\* and renders without error when the root is bound or a default is given.
C10_DefaultThenFilters ==
  (OrderCase(TRUE) /\ pc # "parse") =>
    /\ ParsedAsWritten
    /\ (pc = "done" /\ Renderable) => outcome.kind = "ok"

C10_Witness ==
  /\ OrderCase(TRUE) /\ pc = "done"
  /\ given.root = <<"n","u","l">> /\ given.default = <<"n","o","n","e">> /\ given.filters = <<<<"t","r","i","m">>>>
  /\ ParsedAsWritten
  /\ outcome = Ok(<<"n","o","n","e">>)


\* C11: a ${{...}} expression whose filter chain names an unknown filter, or
\* gives head or tail no parameter or one that is no number, throws when it is
\* rendered, in strict and in lenient mode, whatever stands before the first
\* "|" (a plain path or an arithmetic expression) and whatever the variables.
C11_FilterErrorsThrow ==
  (given.kind = "filter" /\ pc = "done") => outcome.kind = "throw"

\* what C11 says holds of the plain paths
C11_PathFilterErrorsThrow ==
  (given.kind = "filter" /\ pc = "done" /\ ~isMathExpression(given.text)) => outcome.kind = "throw"

----------------------------------------------------------------------------
(* SpecLex: Lexer.tokenize, its while loop taken pass by pass. pc is "scan"   *)
(* in the loop, "validate" before validateBlocks, "tokenized" once tokenize  *)
(* has returned and "done" once it has thrown.                               *)

\* the most pieces a template is put together from
MaxTags == 4

\* a piece is its text and, for a block tag, the TokenType of the tag
Piece(text, block) == [text |-> text, block |-> block]

BlockPieces ==
  <<Piece(<<"{","{","I","F"," ","a","}","}">>, <<"I","F">>), Piece(<<"{","{","E","N","D","_","I","F","}","}">>, <<"E","N","D","_","I","F">>),
    Piece(<<"{","{","F","O","R"," ","x","s"," ","A","S"," ","x","}","}">>, <<"F","O","R">>), Piece(<<"{","{","E","N","D","_","F","O","R","}","}">>, <<"E","N","D","_","F","O","R">>),
    Piece(<<"{","{","L","I","S","T","}","}">>, <<"L","I","S","T">>), Piece(<<"{","{"," ","E","N","D","_","L","I","S","T"," ","}","}">>, <<"E","N","D","_","L","I","S","T">>),
    Piece(<<"x","\n">>, <<>>)>>

OpenerPieces ==
  <<Piece(<<"{","{","I","F"," ","a","}","}">>, <<"I","F">>), Piece(<<"{","{","F","O","R"," ","x","s"," ","A","S"," ","x","}","}">>, <<"F","O","R">>), Piece(<<"{","{","C","A","S","E"," ","a","}","}">>, <<"C","A","S","E">>),
    Piece(<<"{","{","T","A","B","L","E","}","}">>, <<"T","A","B","L","E">>), Piece(<<"{","{","L","I","S","T","}","}">>, <<"L","I","S","T">>)>>
CloserPieces ==
  <<Piece(<<"{","{","E","N","D","_","I","F","}","}">>, <<"E","N","D","_","I","F">>), Piece(<<"{","{","E","N","D","_","F","O","R","}","}">>, <<"E","N","D","_","F","O","R">>), Piece(<<"{","{","E","N","D","_","C","A","S","E","}","}">>, <<"E","N","D","_","C","A","S","E">>),
    Piece(<<"{","{","E","N","D","_","T","A","B","L","E","}","}">>, <<"E","N","D","_","T","A","B","L","E">>), Piece(<<"{","{","E","N","D","_","L","I","S","T","}","}">>, <<"E","N","D","_","L","I","S","T">>)>>
NeutralPieces ==
  <<Piece(<<"$","{","{"," ","v"," ","}","}">>, <<>>), Piece(<<"{","{","#"," ","n","o"," ","#","}","}">>, <<>>), Piece(<<"{","{","E","L","S","E","}","}">>, <<>>),
    Piece(<<"{","{","W","H","E","N"," ","\"","a","\"","}","}">>, <<>>), Piece(<<"\r","\n">>, <<>>), Piece(<<>>, <<>>)>>

PiecesText(pieces) == Join([k \in 1..Len(pieces) |-> pieces[k].text], <<>>)

LexStart(g, text, vs, strict) ==
  /\ pc = "scan"
  /\ given = g
  /\ template = text
  /\ variables = vs
  /\ strictMode = strict
  /\ loopContext = <<>>
  /\ tokens = <<>> /\ pos = 0 /\ line = 1 /\ column = 1
  /\ ast = <<>> /\ results = <<>> /\ trace = <<>> /\ outcome = <<>>

\* templates of well-formed tags: every sequence of up to MaxTags pieces, and
\* every opener with every closer around a piece that opens and closes nothing
LexInit ==
  \/ \E n \in 0..MaxTags : \E choice \in [1..n -> 1..Len(BlockPieces)] :
       LexStart([kind |-> "tags", pieces |-> [k \in 1..n |-> BlockPieces[choice[k]]]],
                PiecesText([k \in 1..n |-> BlockPieces[choice[k]]]), <<>>, TRUE)
  \/ \E o \in 0..Len(OpenerPieces), m \in 1..Len(NeutralPieces), c \in 1..Len(CloserPieces) :
       \E pieces \in {(IF o = 0 THEN <<>> ELSE <<OpenerPieces[o]>>) \o <<NeutralPieces[m], CloserPieces[c]>>} :
         LexStart([kind |-> "tags", pieces |-> pieces], PiecesText(pieces), <<>>, TRUE)

\* tokenize: one pass of its while loop
LexScan ==
  /\ pc = "scan"
  /\ pos < Len(template)
  /\ \E r \in {tokenizeStep(template, [pos |-> pos, line |-> line, column |-> column], tokens)} :
       /\ pos' = r.c.pos
       /\ line' = r.c.line
       /\ column' = r.c.column
       /\ tokens' = r.tokens
       /\ pc' = IF r.err THEN "done" ELSE "scan"
       /\ outcome' = IF r.err THEN r.thrown ELSE outcome
  /\ UNCHANGED <<template, variables, strictMode, loopContext, ast, results, trace, given>>

\* tokenize: the EOF token after the loop
LexEof ==
  /\ pc = "scan"
  /\ pos >= Len(template)
  /\ tokens' = Append(tokens, Token(<<"E","O","F">>, <<>>, line, column))
  /\ pc' = "validate"
  /\ UNCHANGED <<template, variables, strictMode, loopContext, pos, line, column, ast, results,
                 trace, outcome, given>>

\* tokenize: validateBlocks and the return
LexValidate ==
  /\ pc = "validate"
  /\ \E v \in {validateBlocks(tokens)} :
       /\ pc' = IF v.kind = "throw" THEN "done" ELSE "tokenized"
       /\ outcome' = IF v.kind = "throw" THEN v ELSE outcome
  /\ UNCHANGED <<template, variables, strictMode, loopContext, tokens, pos, line, column, ast, results,
                 trace, given>>

LexNext == LexScan \/ LexEof \/ LexValidate

SpecLex == LexInit /\ [][LexNext]_vars

----------------------------------------------------------------------------
(* Properties of SpecLex *)

\* the block tags of the template in order, each with the offset of its "{{"
BlockTags ==
  LET pieces == given.pieces
      at == {k \in 1..Len(pieces) : pieces[k].block # <<>>}
      nth(j) == CHOOSE k \in at : Cardinality({i \in at : i < k}) = j - 1
  IN [j \in 1..Cardinality(at) |->
        [type |-> pieces[nth(j)].block, offset |-> Len(PiecesText(SubSeq(pieces, 1, nth(j) - 1)))]]

\* the line and the column of the character at an offset of the template
LineOf(offset) == 1 + Cardinality({j \in 1..offset : template[j] = "\n"})
ColumnOf(offset) == offset - SetMax({0} \cup {j \in 1..offset : template[j] = "\n"}) + 1

\* tags with every opener that is directly followed by its closer taken out,
\* again and again
RECURSIVE Cancel(_)
Cancel(tags) ==
  LET pairs == {k \in 1..(Len(tags) - 1) :
                  tags[k].type \in Openers /\ tags[k + 1].type = <<"E","N","D","_">> \o tags[k].type}
  IN IF pairs = {} THEN tags
     ELSE Cancel(SubSeq(tags, 1, SetMin(pairs) - 1) \o SubSeq(tags, SetMin(pairs) + 2, Len(tags)))

WellNested == Cancel(BlockTags) = <<>>

\* the closers that do not match the most recent opener still open: those a
\* prefix ending in them cannot cancel
Offending ==
  {k \in 1..Len(BlockTags) :
     /\ BlockTags[k].type \in Closers
     /\ LET rest == Cancel(SubSeq(BlockTags, 1, k)) IN rest # <<>> /\ rest[Len(rest)] = BlockTags[k]}

\* the tag the SyntaxError is about: the first offending closer, else the
\* last opener still open
Culprit ==
  IF Offending # {} THEN BlockTags[SetMin(Offending)]
  ELSE Cancel(BlockTags)[Len(Cancel(BlockTags))]

\* C4: for a template of well-formed tags, tokenize returns normally exactly
\* when its block openers and closers are well nested; otherwise it throws a
\* SyntaxError placed at and naming the first closer that does not match the
\* most recent opener still open or, when there is none, the last opener
\* still open.
C4_WellNested ==
  (given.kind = "tags" /\ pc \in {"tokenized", "done"}) =>
    /\ (pc = "tokenized") <=> WellNested
    /\ pc = "done" =>
         /\ outcome.kind = "throw" /\ outcome.error.type = "SyntaxError"
         /\ outcome.error.line = LineOf(Culprit.offset)
         /\ outcome.error.column = ColumnOf(Culprit.offset)
         /\ Includes(outcome.error.name, <<"{","{">> \o Culprit.type \o <<"}","}">>)

C4_Witness ==
  /\ given.kind = "tags" /\ pc = "done"
  /\ [k \in 1..Len(BlockTags) |-> BlockTags[k].type] = <<<<"I","F">>, <<"F","O","R">>, <<"E","N","D","_","I","F">>>>
  /\ Len(given.pieces) = 4 /\ given.pieces[2].block = <<>>
  /\ outcome.error.type = "SyntaxError"
  /\ outcome.error.line = 2 /\ outcome.error.column = 16
  /\ Len(tokens) = 5

----------------------------------------------------------------------------
(* SpecRender: resolveTemplate. Lexer.tokenize runs as in SpecLex; then pc is *)
(* "tokenized" before Parser.parse, "interpret" while visitProgram visits    *)
(* the children of the ProgramNode one by one, "done" once resolveTemplate   *)
(* has returned or thrown and "hang" when a visit does not return.           *)

\* the most branches (IF and ELSEIF) of a chain
MaxBranches == 3
\* the most items of an array a FOR runs over
MaxItems == 3

\* templates with one structural defect each
Defects ==
  <<[name |-> "unclosed variable", text |-> <<"$","{","{"," ","x">>],
    [name |-> "unclosed tag", text |-> <<"{","{","I","F"," ","a">>],
    [name |-> "unclosed comment", text |-> <<"{","{","#"," ","c">>],
    [name |-> "unknown tag", text |-> <<"{","{","F","O","O","}","}">>],
    [name |-> "unknown tag", text |-> <<"{","{","t","o","S","t","r","i","n","g","}","}">>],
    [name |-> "unbalanced block", text |-> <<"{","{","I","F"," ","a","}","}","x">>],
    [name |-> "unbalanced block", text |-> <<"{","{","E","N","D","_","F","O","R","}","}">>],
    [name |-> "mismatched block", text |-> <<"{","{","F","O","R"," ","x","s"," ","A","S"," ","x","}","}","{","{","E","N","D","_","I","F","}","}">>],
    [name |-> "invalid FOR argument", text |-> <<"{","{","F","O","R"," ","x","s","}","}","x","{","{","E","N","D","_","F","O","R","}","}">>],
    [name |-> "invalid FOR argument", text |-> <<"{","{","F","O","R"," ","x","s"," ","I","N"," ","x","}","}","x","{","{","E","N","D","_","F","O","R","}","}">>],
    [name |-> "invalid FOR argument", text |-> <<"{","{","F","O","R"," ","A","S"," ","x","}","}","x","{","{","E","N","D","_","F","O","R","}","}">>],
    [name |-> "invalid FOR argument", text |-> <<"{","{","F","O","R"," ","x","s"," ","A","S"," ","}","}","x","{","{","E","N","D","_","F","O","R","}","}">>]>>

\* where the defect stands: alone, in a branch that is never rendered, or
\* after constructs that raise a runtime error in strict mode
Settings ==
  <<[name |-> "alone", before |-> <<>>, after |-> <<>>],
    [name |-> "dead branch", before |-> <<"a","{","{","I","F"," ","n","o","}","}">>, after |-> <<"{","{","E","N","D","_","I","F","}","}">>],
    [name |-> "after an error", before |-> <<"$","{","{","g","h","o","s","t","}","}","{","{","F","O","R"," ","o"," ","A","S"," ","x","}","}",".","{","{","E","N","D","_","F","O","R","}","}">>, after |-> <<>>]>>

RenderVariables ==
  << <<<<"a">>, Bool(TRUE)>>, <<<<"n","o">>, Bool(FALSE)>>, <<<<"x","s">>, Arr(<<IntV(1), IntV(2)>>)>>,
     <<<<"o">>, Obj(<<>>)>> >>

\* the k-th item of the arrays a FOR runs over
Item(k) == <<Str(<<"a">>), IntV(2), Bool(TRUE), Str(<<"d">>)>>[((k - 1) % 4) + 1]

\* what xs is bound to, and the array a it coerces to
Iterables ==
  {[value |-> Arr([k \in 1..n |-> Item(k)]), a |-> [k \in 1..n |-> Item(k)]] : n \in 0..MaxItems}
    \cup {[value |-> Str(<<"p",","," ","q">>), a |-> <<Str(<<"p">>), Str(<<"q">>)>>],
          [value |-> IntV(7), a |-> <<IntV(7)>>]}

\* caller variables named like the bindings of the loop
Decoys ==
  << <<<<"i","t","e","m">>, Str(<<"D">>)>>, <<<<"@","i","n","d","e","x","0">>, IntV(8)>>, <<<<"@","i","n","d","e","x","1">>, IntV(9)>>, <<<<"@","f","i","r","s","t">>, Str(<<"D">>)>>,
     <<<<"@","l","a","s","t">>, Str(<<"D">>)>>, <<<<"@","n","o","t","F","i","r","s","t">>, Str(<<"D">>)>>, <<<<"@","n","o","t","L","a","s","t">>, Str(<<"D">>)>> >>

\* loop bodies without nested loops
Bodies ==
  <<<<"$","{","{","i","t","e","m","}","}",",">>,
    <<"$","{","{","@","i","n","d","e","x","0","}","}","$","{","{","@","i","n","d","e","x","1","}","}",";">>,
    <<"$","{","{","@","f","i","r","s","t","}","}","$","{","{","@","l","a","s","t","}","}","$","{","{","@","n","o","t","F","i","r","s","t","}","}","$","{","{","@","n","o","t","L","a","s","t","}","}",";">>,
    <<"{","{","I","F"," ","@","f","i","r","s","t","}","}","F","{","{","E","N","D","_","I","F","}","}","{","{","I","F"," ","@","l","a","s","t","}","}","L","{","{","E","N","D","_","I","F","}","}","{","{","I","F"," ","@","n","o","t","F","i","r","s","t","}","}","f","{","{","E","N","D","_","I","F","}","}","{","{","I","F"," ","@","n","o","t","L","a","s","t","}","}","l","{","{","E","N","D","_","I","F","}","}">>,
    <<"$","{","{","@","i","n","d","e","x","1"," ","*"," ","2","}","}",".">>
  >>

\* the condition of branch k of a chain: true, false, or one that throws
ConditionText(kind, k) ==
  CASE kind = "true" -> <<"t">> \o NatStr(k)
    [] kind = "false" -> <<"f">> \o NatStr(k)
    [] kind = "error" -> <<"e">> \o NatStr(k) \o <<" ",">"," ","1">>

\* the body of branch k: its number, then a variable of its own
BodyText(k) == NatStr(k) \o <<"$","{","{","b">> \o NatStr(k) \o <<"}","}">>

\* the pieces of IF c0 ... ELSEIF c1 ... ELSE ... END_IF: tag k at 2k + 1, body
\* k at 2k + 2 (k from 0), the ELSE body as body Len(kinds)
ChainPieces(kinds, else) ==
  LET n == Len(kinds)
  IN [p \in 1..(2 * n) |->
        IF p % 2 = 0 THEN BodyText((p \div 2) - 1)
        ELSE <<"{","{">> \o (IF p = 1 THEN <<"I","F"," ">> ELSE <<"E","L","S","E","I","F"," ">>) \o ConditionText(kinds[(p + 1) \div 2], (p - 1) \div 2)
               \o <<"}","}">>]
       \o (IF else THEN <<<<"{","{","E","L","S","E","}","}">>, BodyText(n)>> ELSE <<>>)
       \o <<<<"{","{","E","N","D","_","I","F","}","}">>>>

\* every condition variable bound as its name says, and the variable of one body
ChainVariables(bound) ==
  [k \in 1..(MaxBranches + 1) |-> <<<<"t">> \o NatStr(k - 1), Bool(TRUE)>>]
    \o [k \in 1..(MaxBranches + 1) |-> <<<<"f">> \o NatStr(k - 1), Bool(FALSE)>>]
    \o [k \in 1..(MaxBranches + 1) |-> <<<<"e">> \o NatStr(k - 1), Str(<<"a","b","c">>)>>]
    \o <<<<<<"b">> \o NatStr(bound), Str(<<"v">>)>>>>

\* the most WHEN clauses of a CASE
MaxArms == 3

\* what a CASE expression resolves to: the expression, the variables and the
\* string form of the value; absent when its root is bound nowhere
CaseSubjects ==
  <<[expression |-> <<"e">>, variables |-> <<<<<<"e">>, Str(<<"a">>)>>>>, form |-> <<"a">>, absent |-> FALSE],
    [expression |-> <<"e">>, variables |-> <<<<<<"e">>, IntV(1)>>>>, form |-> <<"1">>, absent |-> FALSE],
    [expression |-> <<"e">>, variables |-> <<<<<<"e">>, Str(<<" ","a"," ">>)>>>>, form |-> <<" ","a"," ">>, absent |-> FALSE],
    [expression |-> <<"e">>, variables |-> <<<<<<"e">>, Null>>>>, form |-> <<>>, absent |-> FALSE],
    [expression |-> <<"u",".","z","i","p">>, variables |-> <<<<<<"u">>, Obj(<<<<<<"e">>, Str(<<"a">>)>>>>)>>>>, form |-> <<>>,
     absent |-> FALSE],
    [expression |-> <<"e">>, variables |-> <<<<<<"u">>, Str(<<"a">>)>>>>, form |-> <<>>, absent |-> TRUE]>>
WhenValues == <<<<"a">>, <<"1">>, <<>>>>

\* WHEN clause k renders w and its number, the DEFAULT clause d
WhenText(value, k) == <<"{","{","W","H","E","N"," ","\"">> \o value \o <<"\"","}","}","w">> \o NatStr(k) \o <<"{","{","E","N","D","_","W","H","E","N","}","}">>
DefaultText == <<"{","{","D","E","F","A","U","L","T","}","}","d","{","{","E","N","D","_","D","E","F","A","U","L","T","}","}">>

\* the clauses on lines of their own, the DEFAULT clause before WHEN clause
\* default (after the last one when default is Len(whens) + 1, none when 0)
CaseText(expression, whens, default) ==
  <<"{","{","C","A","S","E"," ">> \o expression \o <<"}","}","\n">>
    \o Join([k \in 1..(Len(whens) + 1) |->
               (IF k = default THEN DefaultText \o <<"\n">> ELSE <<>>)
                 \o (IF k <= Len(whens) THEN WhenText(whens[k], k) \o <<"\n">> ELSE <<>>)], <<>>)
    \o <<"{","{","E","N","D","_","C","A","S","E","}","}">>

\* the most items of a LIST
MaxListItems == 3

\* the list every "nested" item holds after its text: an item that is left
\* out, one that is rendered, one whose fallback is rendered
NestedList ==
  <<"{","{","L","I","S","T","}","}","{","{","L","I","S","T","_","I","T","E","M"," ","f","}","}","n","1","{","{","E","N","D","_","L","I","S","T","_","I","T","E","M","}","}","\n","{","{","L","I","S","T","_","I","T","E","M","}","}","n","2","{","{","E","N","D","_","L","I","S","T","_","I","T","E","M","}","}">>
    \o <<"{","{","L","I","S","T","_","I","T","E","M"," ","f"," ","|"," ","f","a","l","l","b","a","c","k","=","\"","g","3","\"","}","}","n","3","{","{","E","N","D","_","L","I","S","T","_","I","T","E","M","}","}","{","{","E","N","D","_","L","I","S","T","}","}">>

\* item k of a list: unconditional ("plain", "nested"), with a condition that
\* is true or false, or with a false condition and a fallback
ListItemText(kind, k) ==
  CASE kind = "plain" -> <<"{","{","L","I","S","T","_","I","T","E","M","}","}"," ","c">> \o NatStr(k) \o <<" ","{","{","E","N","D","_","L","I","S","T","_","I","T","E","M","}","}">>
    [] kind = "true" -> <<"{","{","L","I","S","T","_","I","T","E","M"," ","t","}","}","c">> \o NatStr(k) \o <<"{","{","E","N","D","_","L","I","S","T","_","I","T","E","M","}","}">>
    [] kind = "false" -> <<"{","{","L","I","S","T","_","I","T","E","M"," ","f","}","}","c">> \o NatStr(k) \o <<"{","{","E","N","D","_","L","I","S","T","_","I","T","E","M","}","}">>
    [] kind = "fallback" ->
         <<"{","{","L","I","S","T","_","I","T","E","M"," ","f"," ","|"," ","f","a","l","l","b","a","c","k","=","\"","f">> \o NatStr(k) \o <<"\"","}","}","c">> \o NatStr(k) \o <<"{","{","E","N","D","_","L","I","S","T","_","I","T","E","M","}","}">>
    [] kind = "nested" -> <<"{","{","L","I","S","T","_","I","T","E","M","}","}","c">> \o NatStr(k) \o NestedList \o <<"{","{","E","N","D","_","L","I","S","T","_","I","T","E","M","}","}">>
ListItemKinds == {"plain", "true", "false", "fallback", "nested"}

\* the items on lines of their own
ListText(kinds) ==
  <<"{","{","L","I","S","T","}","}","\n">> \o Join([k \in 1..Len(kinds) |-> ListItemText(kinds[k], k) \o <<"\n">>], <<>>) \o <<"{","{","E","N","D","_","L","I","S","T","}","}">>

ListVariables == << <<<<"t">>, Bool(TRUE)>>, <<<<"f">>, Bool(FALSE)>> >>

RenderInit ==
  \/ \E d \in 1..Len(Defects), s \in 1..Len(Settings), vs \in {<<>>, RenderVariables}, strict \in BOOLEAN :
       LexStart([kind |-> "defect", defect |-> Defects[d].name, setting |-> Settings[s].name],
                Settings[s].before \o Defects[d].text \o Settings[s].after, vs, strict)
  \/ \E it \in Iterables, b \in 1..Len(Bodies), decoys \in {<<>>, Decoys}, strict \in BOOLEAN :
       LexStart([kind |-> "for", a |-> it.a, body |-> b, decoys |-> decoys # <<>>],
                <<"{","{","F","O","R"," ","x","s"," ","A","S"," ","i","t","e","m","}","}">> \o Bodies[b] \o <<"{","{","E","N","D","_","F","O","R","}","}">>,
                <<<<<<"x","s">>, it.value>>>> \o decoys, strict)
  \/ \E n \in 1..MaxBranches, else \in BOOLEAN, strict \in BOOLEAN :
       \E kinds \in [1..n -> {"true", "false", "error"}], bound \in 0..n :
         LexStart([kind |-> "chain", kinds |-> kinds, else |-> else, bound |-> bound,
                   pieces |-> ChainPieces(kinds, else)],
                  Join(ChainPieces(kinds, else), <<>>), ChainVariables(bound), strict)

\* resolveTemplate: parser.parse(), and the Interpreter constructed
Parse ==
  /\ pc = "tokenized"
  /\ \E parsed \in {parse(tokens)} :
       /\ pc' = IF parsed.err THEN "done" ELSE "interpret"
       /\ outcome' = IF parsed.err THEN parsed.thrown ELSE outcome
       /\ ast' = IF parsed.err THEN ast
                 ELSE [type |-> "Program", body |-> parsed.node, line |-> 1, column |-> 1]
  /\ pos' = 0
  /\ UNCHANGED <<template, variables, strictMode, loopContext, tokens, line, column, results, trace, given>>

\* visitProgram: the visit of its next child
VisitChild ==
  /\ pc = "interpret"
  /\ pos < Len(ast.body)
  /\ \E child \in {visit(ast.body[pos + 1], variables, loopContext, strictMode, trace)} :
       /\ pc' = CASE child.kind = "ok" -> "interpret"
                  [] child.kind = "throw" -> "done"
                  [] child.kind = "hang" -> "hang"
       /\ outcome' = IF child.kind = "ok" THEN outcome
                     ELSE [kind |-> child.kind, out |-> <<>>, error |-> child.error]
       /\ results' = IF child.kind = "ok" THEN Append(results, child.out) ELSE results
       /\ loopContext' = child.loopContext
       /\ trace' = child.trace
  /\ pos' = pos + 1
  /\ UNCHANGED <<template, variables, strictMode, tokens, line, column, ast, given>>

\* visitProgram: the join, and the return of resolveTemplate
Finish ==
  /\ pc = "interpret"
  /\ pos >= Len(ast.body)
  /\ outcome' = Ok(Join(results, <<>>))
  /\ pc' = "done"
  /\ UNCHANGED <<template, variables, strictMode, loopContext, tokens, pos, line, column, ast, results,
                 trace, given>>

RenderNext == LexScan \/ LexEof \/ LexValidate \/ Parse \/ VisitChild \/ Finish

SpecRender == RenderInit /\ [][RenderNext]_vars

\* resolveTemplate called on a CASE block
CaseInit ==
  \E n \in 0..MaxArms, s \in 1..Len(CaseSubjects), strict \in BOOLEAN :
    \E ws \in [1..n -> 1..Len(WhenValues)], default \in 0..(n + 1) :
      LexStart([kind |-> "case", form |-> CaseSubjects[s].form, absent |-> CaseSubjects[s].absent,
                whens |-> [k \in 1..n |-> WhenValues[ws[k]]], default |-> default],
               CaseText(CaseSubjects[s].expression, [k \in 1..n |-> WhenValues[ws[k]]], default),
               CaseSubjects[s].variables, strict)

SpecCase == CaseInit /\ [][RenderNext]_vars

\* the deepest list that holds another list in an item
MaxDepth == 1

\* how the content of an item holds a list: as a child of its own, or in the
\* branch of an IF, the WHEN of a CASE or the body of a FOR that is one
ListWrappers == {"direct", "if", "case", "for"}

\* a list of n items n1, n2, ... in the wrapper
WrappedList(wrapper, n) ==
  With([list \in {<<"{","{","L","I","S","T","}","}">> \o Join([j \in 1..n |-> <<"{","{","L","I","S","T","_","I","T","E","M","}","}","n">> \o NatStr(j) \o <<"{","{","E","N","D","_","L","I","S","T","_","I","T","E","M","}","}">>],
                                     <<>>) \o <<"{","{","E","N","D","_","L","I","S","T","}","}">>} |->
    CASE wrapper = "direct" -> list
      [] wrapper = "if" -> <<"{","{","I","F"," ","t","}","}">> \o list \o <<"{","{","E","N","D","_","I","F","}","}">>
      [] wrapper = "case" -> <<"{","{","C","A","S","E"," ","s","}","}","{","{","W","H","E","N"," ","\"","w","\"","}","}">> \o list \o <<"{","{","E","N","D","_","W","H","E","N","}","}","{","{","E","N","D","_","C","A","S","E","}","}">>
      [] wrapper = "for" -> <<"{","{","F","O","R"," ","x","s"," ","A","S"," ","x","}","}">> \o list \o <<"{","{","E","N","D","_","F","O","R","}","}">>])

\* a list at depth d whose one item has the text p and then the inner text;
\* the lists around it have one item each, q1 the outermost
RECURSIVE ListAtDepth(_, _, _)
ListAtDepth(d, k, inner) ==
  IF k > d THEN <<"{","{","L","I","S","T","}","}","{","{","L","I","S","T","_","I","T","E","M","}","}","p">> \o inner \o <<"{","{","E","N","D","_","L","I","S","T","_","I","T","E","M","}","}","{","{","E","N","D","_","L","I","S","T","}","}">>
  ELSE <<"{","{","L","I","S","T","}","}","{","{","L","I","S","T","_","I","T","E","M","}","}","q">> \o NatStr(k) \o ListAtDepth(d, k + 1, inner) \o <<"{","{","E","N","D","_","L","I","S","T","_","I","T","E","M","}","}","{","{","E","N","D","_","L","I","S","T","}","}">>

WrapperVariables ==
  << <<<<"t">>, Bool(TRUE)>>, <<<<"f">>, Bool(FALSE)>>, <<<<"s">>, Str(<<"w">>)>>, <<<<"x","s">>, Arr(<<IntV(7)>>)>> >>

\* resolveTemplate called on a LIST block, or on two, or on a list that holds
\* a list in an item
ListInit ==
  \/ \E n \in 0..MaxListItems, twice \in BOOLEAN, strict \in BOOLEAN :
       \E kinds \in [1..n -> ListItemKinds] :
         LexStart([kind |-> "list", kinds |-> kinds, twice |-> twice],
                  ListText(kinds) \o (IF twice THEN <<"\n","-","-","\n">> \o ListText(kinds) ELSE <<>>),
                  ListVariables, strict)
  \/ \E d \in 0..MaxDepth, wrapper \in ListWrappers, n \in 1..MaxListItems, strict \in BOOLEAN :
       LexStart([kind |-> "holder", depth |-> d, wrapper |-> wrapper, n |-> n],
                ListAtDepth(d, 1, WrappedList(wrapper, n)), WrapperVariables, strict)

SpecList == ListInit /\ [][RenderNext]_vars

----------------------------------------------------------------------------
(* Properties of SpecRender *)

\* C3: a template with a structural defect (unclosed ${{, unclosed {{ tag or
\* comment, unknown tag keyword, unbalanced or mismatched block, invalid FOR
\* argument) makes resolveTemplate throw SyntaxError before any node is
\* interpreted, whatever the variables and strictMode, also when the defect
\* stands in a branch that is never rendered or after a construct that raises
\* a runtime error; nothing is rendered. The defects are those the Lexer and
\* the Parser reject: an invalid FOR argument is one parseForExpression's
\* pattern finds no match in.
C3_SyntaxErrorFirst ==
  given.kind = "defect" =>
    /\ pc \in {"scan", "validate", "tokenized", "done"}
    /\ trace = <<>> /\ results = <<>>
    /\ pc = "done" => (outcome.kind = "throw" /\ outcome.error.type = "SyntaxError")

C3_Witness ==
  /\ given.kind = "defect" /\ pc = "done"
  /\ given.defect = "invalid FOR argument" /\ given.setting = "after an error"
  /\ strictMode /\ variables = <<>>
  /\ Len(tokens) = 8
  /\ outcome.kind = "throw" /\ outcome.error.type = "SyntaxError"
  /\ StartsWith(outcome.error.name, <<"I","n","v","a","l","i","d"," ","F","O","R"," ","s","y","n","t","a","x">>)
  /\ trace = <<>> /\ results = <<>>

BoolText(b) == IF b THEN <<"t","r","u","e">> ELSE <<"f","a","l","s","e">>

\* the text an item is rendered as
ItemText(v) ==
  CASE v.t = "str" -> v.v
    [] v.t = "num" -> NatStr(v.v[1])
    [] v.t = "bool" -> BoolText(v.v)

\* what loop body b comes to in iteration i (from 0) of n, on the item v, when
\* it sees the bindings C5 names
BodyOutput(b, i, n, v) ==
  CASE b = 1 -> ItemText(v) \o <<",">>
    [] b = 2 -> NatStr(i) \o NatStr(i + 1) \o <<";">>
    [] b = 3 -> BoolText(i = 0) \o BoolText(i = n - 1) \o BoolText(~(i = 0)) \o BoolText(~(i = n - 1)) \o <<";">>
    [] b = 4 -> (IF i = 0 THEN <<"F">> ELSE <<>>) \o (IF i = n - 1 THEN <<"L">> ELSE <<>>)
                  \o (IF ~(i = 0) THEN <<"f">> ELSE <<>>) \o (IF ~(i = n - 1) THEN <<"l">> ELSE <<>>)
    [] b = 5 -> NatStr(2 * (i + 1)) \o <<".">>

\* the loop context holds the bindings of iteration i (from 0) of n
SeesBindings(lc, i, n) ==
  /\ MapGet(lc, <<"i","t","e","m">>) = given.a[i + 1]
  /\ MapGet(lc, <<"@","i","n","d","e","x","0">>) = IntV(i)
  /\ MapGet(lc, <<"@","i","n","d","e","x","1">>) = IntV(i + 1)
  /\ MapGet(lc, <<"@","f","i","r","s","t">>) = Bool(i = 0)
  /\ MapGet(lc, <<"@","l","a","s","t">>) = Bool(i = n - 1)
  /\ MapGet(lc, <<"@","n","o","t","F","i","r","s","t">>) = Bool(~(i = 0))
  /\ MapGet(lc, <<"@","n","o","t","L","a","s","t">>) = Bool(~(i = n - 1))

\* a sequence with each run of equal elements taken once
RECURSIVE Runs(_)
Runs(seq) ==
  IF Len(seq) <= 1 THEN seq
  ELSE IF seq[1] = seq[2] THEN Runs(Tail(seq))
  ELSE <<seq[1]>> \o Runs(Tail(seq))

\* the column the loop body starts at
BodyColumn == Len(<<"{","{","F","O","R"," ","x","s"," ","A","S"," ","i","t","e","m","}","}">>) + 1

\* C5: over an iterable that coerces to the array a of length n, a FOR whose
\* body holds no loop renders the body n times, in index order, and joins the
\* results ("" for n = 0); in iteration i the body sees item = a[i],
\* @index0 = i, @index1 = i + 1, @first = (i = 0), @last = (i = n - 1),
\* @notFirst = ~@first and @notLast = ~@last, whatever the caller's variables
\* of these names hold.
C5_ForBindings ==
  (given.kind = "for" /\ pc = "done") =>
    LET n == Len(given.a)
        seen == Runs([k \in 1..(Len(trace) - 1) |-> trace[k + 1].loopContext])
    IN /\ outcome = Ok(Join([i \in 1..n |-> BodyOutput(given.body, i - 1, n, given.a[i])], <<>>))
       /\ trace[1].type = "For"
       /\ Cardinality({k \in 2..Len(trace) : trace[k].column = BodyColumn}) = n
       /\ Len(seen) = n
       /\ \A i \in 1..n : SeesBindings(seen[i], i - 1, n)

C5_Witness ==
  /\ given.kind = "for" /\ pc = "done"
  /\ Len(given.a) = 3 /\ given.body = 2 /\ given.decoys
  /\ MapGet(variables, <<"@","i","n","d","e","x","0">>) = IntV(8)
  /\ outcome = Ok(<<"0","1",";","1","2",";","2","3",";">>)
  /\ Len(trace) = 10
  /\ loopContext = <<>>

\* the first branch (from 1) whose condition is not false, one more than the
\* branches when every condition is false
FirstDecided ==
  SetMin({k \in 1..(Len(given.kinds) + 1) : k > Len(given.kinds) \/ given.kinds[k] # "false"})

\* the body (from 0) C9 has rendered, -1 for none: that of the first true
\* condition, else the ELSE body
Taken ==
  IF FirstDecided <= Len(given.kinds)
  THEN (IF given.kinds[FirstDecided] = "true" THEN FirstDecided - 1 ELSE -1)
  ELSE IF given.else THEN Len(given.kinds) ELSE -1

\* the column piece p of the chain starts at
PieceColumn(p) == Len(Join(SubSeq(given.pieces, 1, p - 1), <<>>)) + 1

\* the visits C9 allows: the conditions up to the first that is not false, in
\* order, then the text and the variable of the body taken
ChainVisits ==
  [k \in 1..(IF FirstDecided <= Len(given.kinds) THEN FirstDecided ELSE Len(given.kinds)) |->
     [type |-> "If", column |-> PieceColumn(2 * k - 1)]]
    \o (IF Taken = -1 THEN <<>>
        ELSE <<[type |-> "Text", column |-> PieceColumn(2 * Taken + 2)],
               [type |-> "Variable", column |-> PieceColumn(2 * Taken + 2) + 1]>>)

\* C9: an IF / ELSEIF / ELSE chain evaluates its conditions in order and
\* renders the body of the first true one, else the ELSE body if there is one,
\* else nothing; no condition after the first true one is evaluated and no
\* body of another branch is rendered, so that nothing they would throw is
\* thrown.
C9_FirstTrueBranch ==
  (given.kind = "chain" /\ pc = "done") =>
    /\ [k \in 1..Len(trace) |-> [type |-> trace[k].type, column |-> trace[k].column]] = ChainVisits
    /\ (FirstDecided <= Len(given.kinds) /\ given.kinds[FirstDecided] = "error") =>
         (outcome.kind = "throw" /\ outcome.error.type = "TypeError")
    /\ (FirstDecided > Len(given.kinds) /\ ~given.else) => outcome = Ok(<<>>)
    /\ (Taken # -1 /\ given.bound = Taken) => outcome = Ok(NatStr(Taken) \o <<"v">>)
    /\ (Taken # -1 /\ given.bound # Taken /\ ~strictMode) => outcome = Ok(NatStr(Taken))
    /\ (Taken # -1 /\ given.bound # Taken /\ strictMode) =>
         outcome = Throw("MissingVariableError", <<"b">> \o NatStr(Taken), MapKeys(variables))

C9_Witness ==
  /\ given.kind = "chain" /\ pc = "done"
  /\ given.kinds = <<"false", "true", "error">> /\ given.else /\ given.bound = 1 /\ strictMode
  /\ Len(trace) = 4
  /\ outcome = Ok(<<"1","v">>)

----------------------------------------------------------------------------
(* SpecFilter: applyFilter(text, parseFilter(filterString)). template holds   *)
(* the filter string, given.text the text; pc is "apply" before the call and *)
(* "done" after it.                                                          *)

\* the longest text a filter is applied to
MaxText == 4

\* String(n) of an integer
IntText(n) == IF n < 0 THEN <<"-">> \o NatStr(-n) ELSE NatStr(n)

FilterTexts == {Slice(<<"a","b","c","d","e","f">>, 0, k) : k \in 0..MaxText} \cup {<<" ","a"," ">>}

FilterStart(g, filterString) ==
  /\ pc = "apply"
  /\ given = g
  /\ template = filterString
  /\ variables = <<>> /\ strictMode = FALSE /\ loopContext = <<>>
  /\ tokens = <<>> /\ pos = 0 /\ line = 1 /\ column = 1
  /\ ast = <<>> /\ results = <<>> /\ trace = <<>> /\ outcome = <<>>

\* head=N and tail=N for every N a text of up to MaxText characters tells
\* apart, and well past it
FilterInit ==
  \E text \in FilterTexts, name \in {<<"h","e","a","d">>, <<"t","a","i","l">>}, n \in (-2 * MaxText - 1)..(2 * MaxText + 1) :
    FilterStart([kind |-> "headtail", name |-> name, text |-> text, n |-> n],
                name \o <<"=">> \o IntText(n))

\* applyFilter(text, parseFilter(filterString))
FilterApply ==
  /\ pc = "apply"
  /\ \E r \in {applyFilter(given.text, parseFilter(template))} :
       outcome' = IF r.err THEN Throw("Error", <<>>, <<>>) ELSE Ok(r.v)
  /\ pc' = "done"
  /\ UNCHANGED <<template, variables, strictMode, loopContext, tokens, pos, line, column, ast, results,
                 trace, given>>

FilterNext == FilterApply

SpecFilter == FilterInit /\ [][FilterNext]_vars

----------------------------------------------------------------------------
(* Properties of SpecFilter *)

\* the first k and the last k characters of t, t without its first k and
\* without its last k characters; all of t, or nothing, when k > Len(t)
FirstChars(t, k) == SubSeq(t, 1, IF k > Len(t) THEN Len(t) ELSE k)
LastChars(t, k) == SubSeq(t, (IF k > Len(t) THEN 0 ELSE Len(t) - k) + 1, Len(t))
WithoutFirst(t, k) == IF k >= Len(t) THEN <<>> ELSE SubSeq(t, k + 1, Len(t))
WithoutLast(t, k) == IF k >= Len(t) THEN <<>> ELSE SubSeq(t, 1, Len(t) - k)

HeadTailExpected(name, t, n) ==
  IF name = <<"h","e","a","d">>
  THEN (IF n >= 0 THEN FirstChars(t, n) ELSE WithoutLast(t, -n))
  ELSE (IF n > 0 THEN LastChars(t, n) ELSE IF n = 0 THEN <<>> ELSE WithoutFirst(t, -n))

\* C12: for every text t and integer N, head=N is the first N characters of t
\* when N >= 0 (all of t when N > length) and t without its last |N|
\* characters when N < 0 (empty when |N| >= length); tail=N is the last N
\* characters when N > 0 (all of t when N > length), empty when N = 0, and t
\* without its first |N| characters when N < 0 (empty when |N| >= length).
C12_HeadTail ==
  (given.kind = "headtail" /\ pc = "done") =>
    outcome = Ok(HeadTailExpected(given.name, given.text, given.n))

\* what C12 says holds but for head=N with N below minus the length of t
C12_HeadTailWithinLength ==
  (given.kind = "headtail" /\ pc = "done"
     /\ ~(given.name = <<"h","e","a","d">> /\ -given.n > Len(given.text))) =>
    outcome = Ok(HeadTailExpected(given.name, given.text, given.n))

----------------------------------------------------------------------------
(* SpecMath: evaluateMathExpression(expression, variables), variables being   *)
(* the caller's overlaid by the loop context. template holds the expression; *)
(* pc is "evaluate" before the call and "done" after it.                     *)

\* the most operands an arithmetic expression has
MaxTerms == 3

MathVariables ==
  << <<<<"n">>, IntV(3)>>, <<<<"s">>, Str(<<" ","5"," ">>)>>, <<<<"m">>, Str(<<"a","b","c">>)>>, <<<<"o">>, Obj(<<<<<<"k">>, IntV(11)>>>>)>> >>
\* the loop context in the second of two iterations
MathLoopContext == SetAll(<<>>, forBindings(<<"x">>, <<IntV(13), IntV(17)>>, 1))

\* operand texts and the numbers they stand for; the last is bound to a
\* value that is no number
MathOperands ==
  <<[text |-> <<"7">>, v |-> <<7, 1>>], [text |-> <<"n">>, v |-> <<3, 1>>],
    [text |-> <<"@","i","n","d","e","x","1">>, v |-> <<2, 1>>], [text |-> <<"s">>, v |-> <<5, 1>>],
    [text |-> <<"o",".","k">>, v |-> <<11, 1>>], [text |-> <<"x">>, v |-> <<17, 1>>],
    [text |-> <<"m">>, v |-> <<0, 0>>]>>
NotANumber == Len(MathOperands)
MathOperators == <<"+", "-", "*", "/", "%">>

\* parenthesised groups <<i, j>>, from operand i to operand j: any two of
\* them lie one inside the other or apart
Ranges(n) == {r \in (1..n) \X (1..n) : r[1] < r[2]}
Compatible(r, q) ==
  \/ r[2] < q[1] \/ q[2] < r[1]
  \/ (r[1] <= q[1] /\ q[2] <= r[2])
  \/ (q[1] <= r[1] /\ r[2] <= q[2])
Groupings(n) ==
  {G \in SUBSET Ranges(n) : Cardinality(G) <= 2 /\ \A r \in G, q \in G : Compatible(r, q)}

Repeat(c, k) == [j \in 1..k |-> c]

\* the expression as it is written: operand texts, operators between blanks,
\* parentheses around the groups
MathText(operands, ops, groups) ==
  Join([k \in 1..Len(operands) |->
          Repeat("(", Cardinality({r \in groups : r[1] = k}))
            \o MathOperands[operands[k]].text
            \o Repeat(")", Cardinality({r \in groups : r[2] = k}))
            \o (IF k < Len(operands) THEN <<" ", ops[k], " ">> ELSE <<>>)], <<>>)

MathStart(g, text) ==
  /\ pc = "evaluate"
  /\ given = g
  /\ template = text
  /\ variables = MathVariables /\ strictMode = FALSE /\ loopContext = MathLoopContext
  /\ tokens = <<>> /\ pos = 0 /\ line = 1 /\ column = 1
  /\ ast = <<>> /\ results = <<>> /\ trace = <<>> /\ outcome = <<>>

\* n operands taken in turn from MathOperands, starting anywhere, at most one
\* of them replaced by the one that is no number
MathInit ==
  \E n \in 1..MaxTerms, first \in 1..(NotANumber - 1) :
    \E bad \in 0..n, ops \in [1..(n - 1) -> 1..Len(MathOperators)], groups \in Groupings(n) :
      \E operands \in {[k \in 1..n |-> IF k = bad THEN NotANumber
                                       ELSE ((first + k - 2) % (NotANumber - 1)) + 1]} :
        MathStart([kind |-> "math", operands |-> operands,
                   ops |-> [k \in 1..(n - 1) |-> MathOperators[ops[k]]], groups |-> groups],
                  MathText(operands, [k \in 1..(n - 1) |-> MathOperators[ops[k]]], groups))

\* evaluateMathExpression
MathEvaluate ==
  /\ pc = "evaluate"
  /\ \E r \in {evaluateMathExpression(template, getAllVariables(variables, loopContext))} :
       outcome' = CASE r.kind = "ok" -> Ok(NumV(r.v))
                    [] r.kind = "throw" -> ThrowAt("TypeError", <<>>, 1, 1)
                    [] OTHER -> Hang
  /\ pc' = "done"
  /\ UNCHANGED <<template, variables, strictMode, loopContext, tokens, pos, line, column, ast, results,
                 trace, given>>

MathNext == MathEvaluate

SpecMath == MathInit /\ [][MathNext]_vars

----------------------------------------------------------------------------
(* Properties of SpecMath *)

\* the operators between operand lo and operand hi that stand in no group
\* lying inside lo..hi, operator k being the one after operand k
OpenOperators(lo, hi, groups) ==
  {k \in lo..(hi - 1) : \A r \in groups : ~(lo <= r[1] /\ r[2] <= hi /\ r[1] <= k /\ k < r[2])}

\* the value of operands lo..hi under standard precedence: a group that spans
\* them is opened; else the last + or - outside every group splits them, else
\* the last * / %
RECURSIVE Standard(_, _, _, _, _)
Standard(operands, ops, groups, lo, hi) ==
  IF lo = hi THEN MathOperands[operands[lo]].v
  ELSE IF <<lo, hi>> \in groups THEN Standard(operands, ops, groups \ {<<lo, hi>>}, lo, hi)
  ELSE LET open == OpenOperators(lo, hi, groups)
           additive == {k \in open : ops[k] \in {"+", "-"}}
           k == IF additive # {} THEN SetMax(additive) ELSE SetMax(open)
       IN Arith(ops[k], Standard(operands, ops, groups, lo, k), Standard(operands, ops, groups, k + 1, hi))

AllNumbers == \A k \in 1..Len(given.operands) : given.operands[k] # NotANumber

\* C13: for a well-formed arithmetic expression over non-negative integer
\* literals, numeric variables (loop variables included), the operators
\* + - * / % and balanced parentheses, evaluateMathExpression returns the value
\* under standard precedence: groups first, then * / % left to right, then
\* + - left to right; a variable not coercible to a number raises TypeError.
C13_StandardPrecedence ==
  (given.kind = "math" /\ pc = "done") =>
    IF AllNumbers
    THEN outcome = Ok(NumV(Standard(given.operands, given.ops, given.groups, 1, Len(given.operands))))
    ELSE outcome = ThrowAt("TypeError", <<>>, 1, 1)

C13_Witness ==
  /\ given.kind = "math" /\ pc = "done"
  /\ template = <<"n"," ","-"," ","@","i","n","d","e","x","1"," ","*"," ","s">>
  /\ outcome = Ok(IntV(-7))

----------------------------------------------------------------------------
(* Properties of SpecVar: defaults *)

\* the truthiness rule: null and undefined, a string whose trimmed lower-case
\* form is empty, "false", "0" or "no", the number 0, false, an empty array
\* and an empty object are not truthy
NotTruthy(v) ==
  \/ v.t \in {"null", "undef"}
  \/ v.t = "str" /\ ToLower(Trim(v.v)) \in {<<>>, <<"f","a","l","s","e">>, <<"0">>, <<"n","o">>}
  \/ v = IntV(0)
  \/ v = Bool(FALSE)
  \/ v = Arr(<<>>)
  \/ v = Obj(<<>>)

\* the string form of a value that is not null: a string is itself, a number
\* or boolean String() of it, an array or object its JSON text
StringForm(v) ==
  IF v.t = "str" THEN v.v ELSE IF v.t \in {"num", "bool"} THEN JsString(v) ELSE JsonText(v)

\* the filters of FilterNames, each by what it does
FilterOnce(name, t) ==
  CASE name = <<"t","r","i","m">> -> Trim(t)
    [] name = <<"h","e","a","d","=","3">> -> FirstChars(t, 3)
    [] name = <<"e","s","c","a","p","e","_","m","d">> -> applyEscapeMdFilter(t)

RECURSIVE FilterInOrder(_, _)
FilterInOrder(names, t) ==
  IF names = <<>> THEN t ELSE FilterInOrder(Tail(names), FilterOnce(names[1], t))

C14_WitnessKept ==
  /\ given.kind = "default" /\ pc = "done"
  /\ given.value = Str(<<" ","a","*","b"," ">>) /\ given.filters = <<<<"t","r","i","m">>, <<"e","s","c","a","p","e","_","m","d">>>>
  /\ outcome = Ok(<<"a","\\","*","b">>)

----------------------------------------------------------------------------
(* Properties of SpecRender: CASE *)

\* the WHEN clauses whose value is string-equal to the string form of the
\* resolved expression
Matching == {k \in 1..Len(given.whens) : given.whens[k] = given.form}

\* the one arm to render: the first matching WHEN clause, else the DEFAULT
\* clause, else none
ArmOutput ==
  IF Matching # {} THEN <<"w">> \o NatStr(SetMin(Matching))
  ELSE IF given.default # 0 THEN <<"d">>
  ELSE <<>>

C15_WitnessDefault ==
  /\ given.kind = "case" /\ pc = "done"
  /\ given.whens = <<<<"1">>, <<"a">>>> /\ given.default = 2 /\ given.form = <<>> /\ given.absent /\ ~strictMode
  /\ outcome = Ok(<<"d">>)

----------------------------------------------------------------------------
(* Properties of SpecRender: LIST *)

\* the items that emit a line, in item order: all but those with a false
\* condition and no fallback
Emitting == SelectSeq([k \in 1..Len(given.kinds) |-> k], LAMBDA k : given.kinds[k] # "false")

\* what item k emits after its number: its content, or its fallback; a
\* nested item has the lines of its list, numbered from 1, under it
ItemLine(k) ==
  CASE given.kinds[k] = "fallback" -> <<"f">> \o NatStr(k)
    [] given.kinds[k] = "nested" -> <<"c">> \o NatStr(k) \o <<"\n"," "," "," ","1","."," ","n","2","\n"," "," "," ","2","."," ","g","3">>
    [] OTHER -> <<"c">> \o NatStr(k)

\* the lines of the list: the j-th item that emits has the number j
ListOutput == Join([j \in 1..Len(Emitting) |-> NatStr(j) \o <<"."," ">> \o ItemLine(Emitting[j])], <<"\n">>)

\* C16: the item lines a List node renders are numbered 1, 2, ..., k without
\* gaps and in item order, k the number of items that are unconditional, whose
\* condition is true, or whose condition is false and that declare a fallback
\* (rendered in place of the content); an item with a false condition and no
\* fallback emits no line and takes no number; every List node, a nested one
\* and a later one included, counts from 1.
C16_ListNumbering ==
  (given.kind = "list" /\ pc = "done") =>
    outcome = Ok(ListOutput \o (IF given.twice THEN <<"\n","-","-","\n">> \o ListOutput ELSE <<>>))

C16_Witness ==
  /\ given.kind = "list" /\ pc = "done"
  /\ given.kinds = <<"false", "nested", "fallback">> /\ given.twice
  /\ outcome = Ok(<<"1","."," ","c","2","\n"," "," "," ","1","."," ","n","2","\n"," "," "," ","2","."," ","g","3","\n","2","."," ","f","3","\n","-","-","\n","1","."," ","c","2","\n"," "," "," ","1","."," ","n","2","\n"," "," "," ","2","."," ","g","3","\n","2","."," ","f","3">>)


\* 3 x depth spaces
Indent(depth) == Join([j \in 1..depth |-> <<" "," "," ">>], <<>>)

\* the lines of the template of a "holder" when the held list is rendered at
\* the depth after its holder's: the items q1, q2, ... of the lists around, the
\* item p of the holder, and under it the items n1, n2, ... one level deeper
HolderLines ==
  [k \in 1..given.depth |-> Indent(k - 1) \o <<"1","."," ","q">> \o NatStr(k)]
    \o <<Indent(given.depth) \o <<"1","."," ","p">>>>
    \o [j \in 1..given.n |-> Indent(given.depth + 1) \o NatStr(j) \o <<"."," ","n">> \o NatStr(j)]

\* C25: every List node in the content of a ListItem of a list at depth d,
\* directly or wrapped in an IF, CASE or FOR inside that content, is rendered
\* at depth d + 1: each of its lines is indented by 3 x (d + 1) spaces and it
\* is appended on new lines after the parent item's text.
C25_NestedListDepth ==
  (given.kind = "holder" /\ pc = "done") => outcome = Ok(Join(HolderLines, <<"\n">>))

\* the same for the List nodes that are children of the item themselves
C25_DirectNestedListDepth ==
  (given.kind = "holder" /\ given.wrapper = "direct" /\ pc = "done") => outcome = Ok(Join(HolderLines, <<"\n">>))

\* a list in the branch of an IF, the WHEN of a CASE or the body of a FOR of
\* the item is rendered by visit, at depth 0 and on the line of the text
\* before it
C25_WrappedListAtDepthZero ==
  (given.kind = "holder" /\ given.wrapper # "direct" /\ pc = "done") =>
    outcome = Ok(Join([k \in 1..given.depth |-> Indent(k - 1) \o <<"1","."," ","q">> \o NatStr(k)]
                        \o <<Indent(given.depth) \o <<"1","."," ","p","1","."," ","n","1">>>>
                        \o [j \in 1..(given.n - 1) |-> NatStr(j + 1) \o <<"."," ","n">> \o NatStr(j + 1)], <<"\n">>))
----------------------------------------------------------------------------
(* SpecLoop: resolveTemplate called on FOR loops that stand alone or inside  *)
(* the body of another                                                       *)

\* values tryCoerceToArray maps to null, as what the iterable is bound to
\* and the path that reaches it
NonIterables ==
  <<[path |-> <<"b","a","d">>, value |-> Null],
    [path |-> <<"b","a","d">>, value |-> Undef],
    [path |-> <<"b","a","d">>, value |-> Obj(<<>>)],
    [path |-> <<"b","a","d">>, value |-> Obj(<<<<<<"k">>, Arr(<<IntV(1)>>)>>>>)],
    [path |-> <<"b","a","d">>, value |-> Str(<<"{","\"","k","\"",":"," ","[","1","]","}">>)],
    [path |-> <<"b","a","d">>, value |-> Str(<<" ","{","k">>)],
    [path |-> <<"b","a","d">>, value |-> Str(<<>>)],
    [path |-> <<"b","a","d">>, value |-> Str(<<" ","\n"," ">>)],
    [path |-> <<"b","a","d",".","k">>, value |-> Obj(<<<<<<"k">>, Obj(<<<<<<"j">>, IntV(1)>>>>)>>>>)],
    [path |-> <<"b","a","d",".","n","o","n","e">>, value |-> Obj(<<<<<<"k">>, Arr(<<IntV(1)>>)>>>>)]>>

\* what stands before and after the FOR: nothing and a text, or the body of
\* a loop over xs
LoopSettings ==
  <<[name |-> "alone", before |-> <<>>, after |-> <<"|">>, output |-> <<"|">>],
    [name |-> "nested", before |-> <<"{","{","F","O","R"," ","x","s"," ","A","S"," ","x","}","}","$","{","{","x","}","}">>, after |-> <<"|","$","{","{","x","}","}",";","{","{","E","N","D","_","F","O","R","}","}">>,
     output |-> <<"1","|","1",";","2","|","2",";">>]>>

LoopVariables(bad) == << <<<<"x","s">>, Arr(<<IntV(1), IntV(2)>>)>>, <<<<"b","a","d">>, bad>> >>

\* the most items of the arrays of the loops that finish
MaxLoop == 2

\* the variables asked for after a loop has finished: the item names and the
\* @-variables
Probes == {<<"x">>, <<"y">>, <<"@","i","n","d","e","x","0">>, <<"@","i","n","d","e","x","1">>, <<"@","f","i","r","s","t">>, <<"@","l","a","s","t">>, <<"@","n","o","t","F","i","r","s","t">>, <<"@","n","o","t","L","a","s","t">>}

\* the loop that finishes: a FOR, or a FOR that generates the rows of a TABLE
FinishingLoop(kind) ==
  IF kind = "for" THEN <<"{","{","F","O","R"," ","y","s"," ","A","S"," ","y","}","}","$","{","{","y","}","}","$","{","{","@","i","n","d","e","x","1","}","}","{","{","E","N","D","_","F","O","R","}","}">>
  ELSE <<"{","{","T","A","B","L","E","}","}","{","{","F","O","R"," ","y","s"," ","A","S"," ","y","}","}","{","{","R","O","W","}","}","$","{","{","y","}","}","|","$","{","{","@","i","n","d","e","x","1","}","}","{","{","E","N","D","_","R","O","W","}","}","{","{","E","N","D","_","F","O","R","}","}","{","{","E","N","D","_","T","A","B","L","E","}","}">>

\* outer = 0: the loop stands alone; else in the body of a FOR over outer items
FinishingBefore(outer, kind) ==
  (IF outer = 0 THEN <<>> ELSE <<"{","{","F","O","R"," ","x","s"," ","A","S"," ","x","}","}","$","{","{","x","}","}",":">>) \o FinishingLoop(kind) \o <<"<">>

FinishingText(outer, kind, probe) ==
  FinishingBefore(outer, kind) \o <<"$","{","{">> \o probe \o <<"}","}",">">> \o (IF outer = 0 THEN <<>> ELSE <<"{","{","E","N","D","_","F","O","R","}","}">>)
    \o <<".">>

FinishingVariables(outer, inner) ==
  << <<<<"x","s">>, Arr([i \in 1..outer |-> IntV(10 * i)])>>, <<<<"y","s">>, Arr([j \in 1..inner |-> IntV(j)])>> >>

\* what the FOR of a TABLE goes over: the value, and the string forms of the
\* items a FOR goes through for it (iterable = FALSE: the value is no array)
RowIterables ==
  {[value |-> Arr([j \in 1..n |-> IntV(j)]), iterable |-> TRUE, items |-> [j \in 1..n |-> NatStr(j)]] :
     n \in 0..MaxLoop}
  \cup {[value |-> Str(<<"[","7",","," ","8","]">>), iterable |-> TRUE, items |-> <<<<"7">>, <<"8">>>>],
        [value |-> Str(<<"a",","," ","b">>), iterable |-> TRUE, items |-> <<<<"a">>, <<"b">>>>],
        [value |-> Null, iterable |-> FALSE, items |-> <<>>],
        [value |-> Obj(<< <<<<"k">>, IntV(1)>> >>), iterable |-> FALSE, items |-> <<>>],
        [value |-> Str(<<" ">>), iterable |-> FALSE, items |-> <<>>]}

\* the FOR with rows ROWs for its body
RowLoop(rows) ==
  <<"{","{","F","O","R"," ","y","s"," ","A","S"," ","y","}","}","{","{","R","O","W","}","}","$","{","{","y","}","}","|","$","{","{","@","i","n","d","e","x","1","}","}","{","{","E","N","D","_","R","O","W","}","}">>
    \o (IF rows = 2 THEN <<"{","{","R","O","W","}","}","$","{","{","@","l","a","s","t","}","}","{","{","E","N","D","_","R","O","W","}","}">> ELSE <<>>) \o <<"{","{","E","N","D","_","F","O","R","}","}">>

LoopInit ==
  \/ \E v \in 1..Len(NonIterables), s \in 1..Len(LoopSettings), strict \in BOOLEAN :
       LexStart([kind |-> "noniterable", setting |-> LoopSettings[s].name,
                 column |-> Len(LoopSettings[s].before) + 1, output |-> LoopSettings[s].output],
                LoopSettings[s].before \o <<"{","{","F","O","R"," ">> \o NonIterables[v].path \o <<" ","A","S"," ","y","}","}","B","$","{","{","y","}","}","{","{","E","N","D","_","F","O","R","}","}">>
                  \o LoopSettings[s].after,
                LoopVariables(NonIterables[v].value), strict)
  \/ \E outer \in 0..MaxLoop, inner \in 0..MaxLoop, kind \in {"for", "table"}, probe \in Probes,
        strict \in BOOLEAN :
       LexStart([kind |-> "finishing", loop |-> kind, outer |-> outer, inner |-> inner, probe |-> probe,
                 column |-> Len(FinishingBefore(outer, kind)) + 1],
                FinishingText(outer, kind, probe), FinishingVariables(outer, inner), strict)
  \/ \E ys \in RowIterables, rows \in 1..2, strict \in BOOLEAN :
       LexStart([kind |-> "rows", iterable |-> ys.iterable, items |-> ys.items, rows |-> rows],
                <<"{","{","T","A","B","L","E","}","}">> \o RowLoop(rows) \o <<"{","{","E","N","D","_","T","A","B","L","E","}","}">>, << <<<<"y","s">>, ys.value>> >>, strict)

SpecLoop == LoopInit /\ [][RenderNext]_vars

----------------------------------------------------------------------------
(* Properties of SpecLoop *)

\* the visits of the FOR the claim is about
ForVisits == {k \in 1..Len(trace) : trace[k].type = "For" /\ trace[k].column = given.column}

\* C17: a FOR whose iterable has a bound root and resolves to a value
\* tryCoerceToArray maps to null (null, a plain object, a string that starts
\* with "{", an empty or blank string) renders "" in lenient mode and throws
\* TypeError in strict mode; either way its body is never rendered (no node is
\* visited with its item bound) and the loop overlay is as it was on entry:
\* for the next node visited, and for the Interpreter when the error leaves.
\* The FOR is one visitFor visits: the FOR that stands for rows of a TABLE is
\* gone through by visitTable, which takes what is no array for no rows.
C17_NotIterable ==
  (given.kind = "noniterable" /\ pc = "done") =>
    /\ ForVisits # {}
    /\ \A k \in 1..Len(trace) : ~MapHas(trace[k].loopContext, <<"y">>)
    /\ \A k \in ForVisits : k < Len(trace) => trace[k + 1].loopContext = trace[k].loopContext
    /\ IF strictMode
       THEN /\ outcome = ThrowAt("TypeError", <<"C","a","n","n","o","t"," ","i","t","e","r","a","t","e"," ","o","v","e","r"," ","n","o","n","-","a","r","r","a","y"," ","v","a","l","u","e">>, 1, given.column)
            /\ trace[Len(trace)].type = "For"
            /\ loopContext = trace[Len(trace)].loopContext
       ELSE outcome = Ok(given.output)

C17_Witness ==
  /\ given.kind = "noniterable" /\ pc = "done"
  /\ given.setting = "nested" /\ ~strictMode
  /\ MapGet(variables, <<"b","a","d">>) = Str(<<" ","{","k">>)
  /\ Cardinality(ForVisits) = 2
  /\ outcome = Ok(<<"1","|","1",";","2","|","2",";">>)

C17_WitnessStrict ==
  /\ given.kind = "noniterable" /\ pc = "done"
  /\ given.setting = "nested" /\ strictMode
  /\ MapGet(variables, <<"b","a","d">>) = Obj(<<>>)
  /\ outcome.kind = "throw" /\ outcome.error.type = "TypeError"
  /\ MapHas(loopContext, <<"x">>)

\* what the loop that finishes renders
FinishingOutput ==
  IF given.loop = "for" THEN Join([j \in 1..given.inner |-> NatStr(j) \o NatStr(j)], <<>>)
  ELSE Join([j \in 1..given.inner |-> <<"|"," ">> \o NatStr(j) \o <<" ","|"," ">> \o NatStr(j) \o <<" ","|">>], <<"\n">>)

\* the visits of the variable asked for after the loop, and of the outer
\* item at the head of the outer body, in their order
ProbeVisits == {k \in 1..Len(trace) : trace[k].type = "Variable" /\ trace[k].column = given.column}
HeadVisits == {k \in 1..Len(trace) : trace[k].type = "Variable" /\ trace[k].column = 16 /\ given.outer > 0}

\* C20: when a FOR that has an array to go through, or the FOR that
\* generates the rows of a TABLE, finishes (with no items too), the whole loop
\* overlay is empty, the bindings of an enclosing FOR with it: the item names
\* and the @-variables asked for in the rest of the enclosing body are absent
\* roots (MissingVariableError in strict mode, "" in lenient mode), and the
\* next outer iteration binds its item and @-variables again. The overlay is
\* empty whenever the Interpreter is between the nodes of the Program and
\* when it returns. (A FOR over what is no array has nothing to go through
\* and leaves the overlay as it is, and a FOR an error leaves has not
\* finished.)
C20_OverlayEmptied ==
  given.kind = "finishing" =>
    /\ (pc = "interpret" \/ (pc = "done" /\ outcome.kind = "ok")) => loopContext = <<>>
    /\ \A k \in ProbeVisits : trace[k].loopContext = <<>>
    /\ \A k \in HeadVisits :
         With([i \in {Cardinality({h \in HeadVisits : h <= k})} |->
           /\ MapGet(trace[k].loopContext, <<"x">>) = IntV(10 * i)
           /\ MapGet(trace[k].loopContext, <<"@","i","n","d","e","x","1">>) = IntV(i)
           /\ MapGet(trace[k].loopContext, <<"@","f","i","r","s","t">>) = Bool(i = 1)
           /\ ~MapHas(trace[k].loopContext, <<"y">>)])
    /\ pc = "done" =>
         IF strictMode
         THEN /\ outcome.kind = "throw"
              /\ outcome.error.type = "MissingVariableError"
              /\ outcome.error.name = given.probe
              /\ Cardinality(ProbeVisits) = 1
         ELSE /\ Cardinality(ProbeVisits) = (IF given.outer = 0 THEN 1 ELSE given.outer)
              /\ Cardinality(HeadVisits) = given.outer
              /\ outcome =
                   Ok((IF given.outer = 0 THEN FinishingOutput \o <<"<",">">>
                       ELSE Join([i \in 1..given.outer |-> NatStr(10 * i) \o <<":">> \o FinishingOutput \o <<"<",">">>],
                                 <<>>))
                      \o <<".">>)

\* an inner FOR finishes in the first of two outer iterations: the outer
\* item is gone after it and back in the second iteration
C20_Witness ==
  /\ given.kind = "finishing" /\ pc = "done"
  /\ given.loop = "for" /\ given.outer = 2 /\ given.inner = 2 /\ given.probe = <<"x">>
  /\ ~strictMode
  /\ outcome = Ok(<<"1","0",":","1","1","2","2","<",">","2","0",":","1","1","2","2","<",">",".">>)
  /\ Cardinality(ProbeVisits) = 2

C20_WitnessStrict ==
  /\ given.kind = "finishing" /\ pc = "done"
  /\ given.loop = "table" /\ given.outer = 2 /\ given.inner = 1 /\ given.probe = <<"@","i","n","d","e","x","1">>
  /\ strictMode
  /\ outcome.kind = "throw" /\ outcome.error.type = "MissingVariableError"
  /\ Cardinality(HeadVisits) = 1

\* the lines of the rows the j-th item stands for
ItemLines(j) ==
  <<<<"|"," ">> \o given.items[j] \o <<" ","|"," ">> \o NatStr(j) \o <<" ","|">>>>
    \o (IF given.rows = 2
        THEN <<<<"|"," ">> \o (IF j = Len(given.items) THEN <<"t","r","u","e">> ELSE <<"f","a","l","s","e">>) \o <<" ","|"," "," ","|">>>>
        ELSE <<>>)

RECURSIVE RowLines(_)
RowLines(j) == IF j > Len(given.items) THEN <<>> ELSE ItemLines(j) \o RowLines(j + 1)

\* C23: the FOR that stands in a TABLE is gone through as a FOR of its own
\* is: the items in their order with the bindings of each, a row for every
\* ROW of the body and item, and for what is no array the TypeError in strict
\* mode and no rows in lenient mode.
C23_TableForLikeFor ==
  (given.kind = "rows" /\ pc = "done") =>
    IF ~given.iterable /\ strictMode
    THEN outcome.kind = "throw" /\ outcome.error.type = "TypeError"
    ELSE outcome = Ok(Join(RowLines(1), <<"\n">>))

\* what of C23 visitTable does: the claim holds but for what is no array in
\* strict mode
C23_TableForOverArray ==
  (given.kind = "rows" /\ pc = "done" /\ (given.iterable \/ ~strictMode)) =>
    outcome = Ok(Join(RowLines(1), <<"\n">>))

----------------------------------------------------------------------------
(* SpecTable: resolveTemplate called on one TABLE *)

MaxCols == 3
MaxRows == 2

\* the align attribute: the alignments declared, from the first column on,
\* and what stands between them ("" declares none for its column)
TableAlignments ==
  <<[declared |-> <<>>, between |-> <<"|">>],
    [declared |-> <<<<"r","i","g","h","t">>, <<"l","e","f","t">>>>, between |-> <<"|">>],
    [declared |-> <<<<"c","e","n","t","e","r">>, <<>>, <<"r","i","g","h","t">>>>, between |-> <<" ","|"," ">>]>>

TableAttribute(a) ==
  IF a.declared = <<>> THEN <<>> ELSE <<" ","a","l","i","g","n","=","\"">> \o Join(a.declared, a.between) \o <<"\"">>

\* the c-th header cell as written
HeaderCellText(c) ==
  CASE c = 1 -> <<"N","a","m","e">>
    [] c = 2 -> <<" ">>
    [] c = 3 -> <<"$","{","{","h","}","}"," ","h">>
    [] OTHER -> <<"H">> \o NatStr(c)

\* the c-th cell of a ROW as written
RowCellText(c) ==
  CASE c = 1 -> <<"$","{","{","v","}","}">>
    [] c = 2 -> <<>>
    [] OTHER -> <<" ","c">> \o NatStr(c) \o <<" ">>

\* a row of the table as written: a ROW of n cells, a FOR with a ROW for its
\* body, a FOR with a text for its body, a FOR over what is no array
RowChoices == [kind : {"plain"}, n : 1..MaxCols] \cup [kind : {"for", "text", "none"}, n : {0}]

RowText(choice) ==
  CASE choice.kind = "plain" ->
         <<"{","{","R","O","W","}","}">> \o Join([c \in 1..choice.n |-> RowCellText(c)], <<"|">>) \o <<"{","{","E","N","D","_","R","O","W","}","}">>
    [] choice.kind = "for" -> <<"{","{","F","O","R"," ","x","s"," ","A","S"," ","x","}","}","{","{","R","O","W","}","}","$","{","{","x","}","}","|","$","{","{","@","i","n","d","e","x","1","}","}","{","{","E","N","D","_","R","O","W","}","}","{","{","E","N","D","_","F","O","R","}","}">>
    [] choice.kind = "text" -> <<"{","{","F","O","R"," ","x","s"," ","A","S"," ","x","}","}","f","|"," ","g"," ","{","{","E","N","D","_","F","O","R","}","}">>
    [] choice.kind = "none" -> <<"{","{","F","O","R"," ","n","o","n","e"," ","A","S"," ","x","}","}","{","{","R","O","W","}","}","z","{","{","E","N","D","_","R","O","W","}","}","{","{","E","N","D","_","F","O","R","}","}">>

\* header = 0: no HEADER
TableText(alignment, header, rows) ==
  <<"{","{","T","A","B","L","E">> \o TableAttribute(alignment) \o <<"}","}","\n">>
    \o (IF header = 0 THEN <<>>
        ELSE <<"{","{","H","E","A","D","E","R","}","}">> \o Join([c \in 1..header |-> HeaderCellText(c)], <<"|">>) \o <<"{","{","E","N","D","_","H","E","A","D","E","R","}","}">>)
    \o Join([r \in 1..Len(rows) |-> RowText(rows[r])], <<>>)
    \o <<"{","{","E","N","D","_","T","A","B","L","E","}","}">>

TableVariables ==
  << <<<<"h">>, Str(<<"S","t","a","t","u","s">>)>>, <<<<"v">>, Str(<<"v","a","l">>)>>, <<<<"x","s">>, Arr(<<IntV(7), IntV(8)>>)>>,
     <<<<"n","o","n","e">>, Null>> >>

TableInit ==
  \E a \in 1..Len(TableAlignments), header \in 0..MaxCols,
     rows \in UNION {[1..r -> RowChoices] : r \in 0..MaxRows} :
    LexStart([kind |-> "table", alignment |-> TableAlignments[a].declared, header |-> header, rows |-> rows],
             TableText(TableAlignments[a], header, rows), TableVariables, FALSE)

SpecTable == TableInit /\ [][RenderNext]_vars

----------------------------------------------------------------------------
(* Properties of SpecTable *)

\* the cells the header and a row as written are to show
HeaderShown(n) == [c \in 1..n |-> CASE c = 1 -> <<"N","a","m","e">> [] c = 2 -> <<>> [] c = 3 -> <<"S","t","a","t","u","s"," ","h">>
                                    [] OTHER -> <<"H">> \o NatStr(c)]

RowsShown(choice) ==
  CASE choice.kind = "plain" ->
         <<[c \in 1..choice.n |-> CASE c = 1 -> <<"v","a","l">> [] c = 2 -> <<>> [] OTHER -> <<"c">> \o NatStr(c)]>>
    [] choice.kind = "for" -> <<<<<<"7">>, <<"1">>>>, <<<<"8">>, <<"2">>>>>>
    [] choice.kind = "text" -> <<<<<<"f">>, <<"g">>>>, <<<<"f">>, <<"g">>>>>>
    [] choice.kind = "none" -> <<>>

RECURSIVE AllShown(_, _)
AllShown(rows, k) == IF k > Len(rows) THEN <<>> ELSE RowsShown(rows[k]) \o AllShown(rows, k + 1)

\* the header, when there is one, and the rows under it
TableShown == (IF given.header = 0 THEN <<>> ELSE <<HeaderShown(given.header)>>) \o AllShown(given.rows, 1)

TableWidth == SetMax({Len(TableShown[r]) : r \in 1..Len(TableShown)})

\* the lines of the output and the cells of a line: what stands between its
\* pipes (no cell of these tables holds one)
TableOutput == IF outcome.out = <<>> THEN <<>> ELSE Split(outcome.out, <<"\n">>)
LineCells(l) == With([parts \in {Split(l, <<"|">>)} |-> [c \in 1..(Len(parts) - 2) |-> parts[c + 1]]])

Dashes(n) == [j \in 1..n |-> "-"]

\* the separator cell under a header cell, for the alignment declared
SeparatorCell(shown, declared) ==
  With([width \in {IF Len(shown) > 5 THEN Len(shown) ELSE 5} |->
    CASE declared = <<"c","e","n","t","e","r">> -> <<":">> \o Dashes(width) \o <<":">>
      [] declared = <<"r","i","g","h","t">> -> Dashes(width) \o <<":">>
      [] declared \in {<<"l","e","f","t">>, <<>>} -> <<":">> \o Dashes(width)])

Declared(c) == IF c <= Len(given.alignment) THEN given.alignment[c] ELSE <<>>

IsSeparatorLine(l) == l # <<>> /\ \A k \in 1..Len(l) : l[k] \in {"|", "-", ":"}

\* the line of the r-th row to show: l is the row line of cells
IsRowLine(l, cells) ==
  /\ Len(LineCells(l)) = Len(cells)
  /\ \A c \in 1..Len(cells) : LineCells(l)[c] = <<" ">> \o cells[c] \o <<" ">>
  /\ At(l, 0) = "|" /\ At(l, Len(l) - 1) = "|"

C18_WitnessHeader ==
  /\ given.kind = "table" /\ pc = "done"
  /\ given.header = 3
  /\ given.alignment = <<>>
  /\ given.rows = <<[kind |-> "plain", n |-> 1]>>
  /\ outcome = Ok(<<"|"," ","N","a","m","e"," ","|"," "," ","|"," ","S","t","a","t","u","s"," ","h"," ","|","\n","|",":","-","-","-","-","-","|",":","-","-","-","-","-","|",":","-","-","-","-","-","-","-","-","|","\n","|"," ","v","a","l"," ","|"," "," ","|"," "," ","|">>)

\* no header: no separator line
C18_WitnessNoHeader ==
  /\ given.kind = "table" /\ pc = "done"
  /\ given.header = 0
  /\ given.rows = <<[kind |-> "text", n |-> 0], [kind |-> "plain", n |-> 3]>>
  /\ outcome = Ok(<<"|"," ","f"," ","|"," ","g"," ","|"," "," ","|","\n","|"," ","f"," ","|"," ","g"," ","|"," "," ","|","\n","|"," ","v","a","l"," ","|"," "," ","|"," ","c","3"," ","|">>)

----------------------------------------------------------------------------
(* SpecCoerce: tryCoerceToArray and tryCoerceToObject called on a JSON text  *)
(* and on the same text with stray commas. given.text holds the JSON text,   *)
(* template the text with the commas; pc is "apply" before the calls and     *)
(* "done" after them.                                                        *)

\* the most elements of an array and members of an object
MaxElems == 2

\* the p-th element of an array, by its kind
ArrayElem(kind, p) ==
  CASE kind = "num" -> IntV(p)
    [] kind = "str" -> Str(<<"a","]">>)
    [] kind = "empty" -> Arr(<<>>)
    [] kind = "nested" -> Arr(<<Null, Obj(<< <<<<"k">>, Bool(TRUE)>> >>)>>)

ArrayElemKinds == {"num", "str", "empty", "nested"}

\* the p-th member of an object, by its kind
ObjectMember(kind, p) ==
  <<<<"k">> \o NatStr(p),
    CASE kind = "num" -> IntV(p)
      [] kind = "str" -> Str(<<"{","a">>)
      [] kind = "nested" -> Obj(<< <<<<"j">>, Obj(<<>>)>> >>)>>

ObjectMemberKinds == {"num", "str", "nested"}

\* where text has one of chars outside its string literals (none of the
\* literals here has a quote in it)
Structural(text, chars) ==
  {k \in 1..Len(text) :
     /\ text[k] \in chars
     /\ Cardinality({q \in 1..(k - 1) : text[q] = "\""}) % 2 = 0}

\* text with n commas directly after the openers and directly before the
\* closers at marks
Strayed(text, marks, n) ==
  Join([k \in 1..Len(text) |->
          IF k \notin marks THEN <<text[k]>>
          ELSE IF text[k] \in {"[", "{"} THEN <<text[k]>> \o [j \in 1..n |-> ","]
          ELSE [j \in 1..n |-> ","] \o <<text[k]>>],
       <<>>)

\* text with a blank after every comma between elements and blanks around it
Spaced(text) ==
  <<" ">> \o Join([k \in 1..Len(text) |-> IF k \in Structural(text, {","}) THEN <<","," ">> ELSE <<text[k]>>], <<>>)
       \o <<"\n">>

\* no bracket, one, two or all of them
Marks(places) == {{}, places} \cup {{a, b} : a \in places, b \in places}

\* where a JSON text has commas too many: after the opener, between two
\* elements or members, before the closer
ExtraPlaces == {"leading", "between", "trailing"}

\* the text of parts (the texts of the elements or members) between open and
\* close, with extra commas more at place than JSON has there
WithExtra(open, close, parts, place, extra) ==
  With([more \in {[j \in 1..extra |-> ","]} |->
    open \o (IF place = "leading" THEN more ELSE <<>>)
         \o Join(parts, IF place = "between" THEN <<",">> \o more ELSE <<",">>)
         \o (IF place = "trailing" THEN more ELSE <<>>) \o close])

MemberText(member) == JsonQuote(member[1]) \o <<":">> \o JsonText(member[2])

\* strings of valid JSON that hold what the repair looks for
RepairLookalikes == {<<"a",",","]">>, <<"[",",","b">>, <<"{",",","c">>, <<"d",",","}">>, <<"e",",",",","f">>, <<"p","l","a","i","n">>}

CoerceInit ==
  \/ \E n \in 0..MaxElems, spaced \in BOOLEAN :
       \E kinds \in [1..n -> ArrayElemKinds] :
         \E value \in {Arr([p \in 1..n |-> ArrayElem(kinds[p], p)])} :
           \E text \in {IF spaced THEN Spaced(JsonText(value)) ELSE JsonText(value)} :
             \E marks \in Marks(Structural(text, {"[", "]"})) :
               FilterStart([kind |-> "array", fn |-> "array", value |-> value, text |-> text, marks |-> marks, commas |-> 1],
                           Strayed(text, marks, 1))
  \/ \E n \in 0..MaxElems, spaced \in BOOLEAN, commas \in 1..2 :
       \E kinds \in [1..n -> ObjectMemberKinds] :
         \E value \in {Obj([p \in 1..n |-> ObjectMember(kinds[p], p)])} :
           \E text \in {IF spaced THEN Spaced(JsonText(value)) ELSE JsonText(value)} :
             \E marks \in Marks(Structural(text, {"{", "}"})) :
               FilterStart([kind |-> "object", fn |-> "object", value |-> value, text |-> text, marks |-> marks,
                            commas |-> commas],
                           Strayed(text, marks, commas))
  \/ \E n \in 1..MaxElems, place \in ExtraPlaces, extra \in 1..2, fn \in {"array", "object"} :
       \E kinds \in [1..n -> IF fn = "array" THEN ArrayElemKinds ELSE ObjectMemberKinds] :
         \E value \in {IF fn = "array" THEN Arr([p \in 1..n |-> ArrayElem(kinds[p], p)])
                        ELSE Obj([p \in 1..n |-> ObjectMember(kinds[p], p)])} :
           /\ place = "between" => n > 1
           /\ place # "between" => extra = 2
           /\ FilterStart([kind |-> "extra", fn |-> fn, value |-> value, text |-> JsonText(value),
                            place |-> place, extra |-> extra],
                           IF fn = "array"
                           THEN WithExtra(<<"[">>, <<"]">>, [p \in 1..n |-> JsonText(value.v[p])], place, extra)
                           ELSE WithExtra(<<"{">>, <<"}">>, [p \in 1..n |-> MemberText(value.v[p])], place, extra))
  \/ \E n \in 1..MaxElems, fn \in {"array", "object"} :
       \E strings \in [1..n -> RepairLookalikes], inKey \in BOOLEAN :
         \E value \in {IF fn = "array" THEN Arr([p \in 1..n |-> Str(strings[p])])
                        ELSE Obj([p \in 1..n |-> IF inKey THEN <<strings[p] \o NatStr(p), IntV(p)>>
                                                  ELSE <<<<"k">> \o NatStr(p), Str(strings[p])>>])} :
           /\ fn = "array" => ~inKey
           /\ FilterStart([kind |-> "valid", fn |-> fn, value |-> value, text |-> JsonText(value)],
                           JsonText(value))

\* out |-> what the text gives and what the text with the commas gives
Coerce ==
  /\ pc = "apply"
  /\ outcome' = IF given.fn = "array"
                THEN Ok(<<tryCoerceToArray(Str(given.text)), tryCoerceToArray(Str(template))>>)
                ELSE Ok(<<tryCoerceToObject(Str(given.text)), tryCoerceToObject(Str(template))>>)
  /\ pc' = "done"
  /\ UNCHANGED <<template, variables, strictMode, loopContext, tokens, pos, line, column, ast, results,
                 trace, given>>

CoerceNext == Coerce

SpecCoerce == CoerceInit /\ [][CoerceNext]_vars

----------------------------------------------------------------------------
(* Properties of SpecCoerce *)

\* C19: a JSON array text with one stray comma directly after any of its "["
\* and directly before any of its "]" gives what the text without them gives
\* under tryCoerceToArray, the array with its elements in their JSON types; a
\* JSON object text with stray commas directly after any "{" and directly
\* before any "}" gives what the text without them gives under
\* tryCoerceToObject.
C19_StrayCommas ==
  (given.kind \in {"array", "object"} /\ pc = "done") =>
    /\ outcome.out[2] = outcome.out[1]
    /\ outcome.out[1] = given.value

\* [,1,2,] gives the numbers 1 and 2
C19_Witness ==
  /\ given.kind = "array" /\ pc = "done"
  /\ given.text = <<"[","1",",","2","]">>
  /\ template = <<"[",",","1",",","2",",","]">>
  /\ outcome.out[2] = Arr(<<IntV(1), IntV(2)>>)

\* a comma at both brackets of an empty array in an array
C19_WitnessNested ==
  /\ given.kind = "array" /\ pc = "done"
  /\ template = <<" ","[","1",","," ","[",",",",","]","]","\n">>
  /\ outcome.out[2] = Arr(<<IntV(1), Arr(<<>>)>>)

C19_WitnessObject ==
  /\ given.kind = "object" /\ pc = "done"
  /\ template = <<"{",",",",","\"","k","1","\"",":","1",",","\"","k","2","\"",":","{","\"","j","\"",":","{",",",",","}","}","}">>
  /\ outcome.out[2] = Obj(<< <<<<"k","1">>, IntV(1)>>, <<<<"k","2">>, Obj(<< <<<<"j">>, Obj(<<>>)>> >>)>> >>)

\* C24: a JSON array text with a comma twice between two elements, or with
\* more than one comma after "[" or before "]", gives under tryCoerceToArray
\* the array the text without the extra commas gives, its elements in their
\* JSON types; a JSON object text with such commas gives under
\* tryCoerceToObject the object the text without them gives.
C24_ExtraCommas ==
  (given.kind = "extra" /\ pc = "done") =>
    /\ outcome.out[1] = given.value
    /\ outcome.out[2] = outcome.out[1]

\* what of C24 the code does: the claim holds of tryCoerceToObject
C24_ExtraCommasObject ==
  (given.kind = "extra" /\ given.fn = "object" /\ pc = "done") =>
    /\ outcome.out[1] = given.value
    /\ outcome.out[2] = outcome.out[1]

\* C28: a text that is valid JSON of an array gives under tryCoerceToArray,
\* and one of an object under tryCoerceToObject, the value JSON.parse gives:
\* strings and keys that hold ",]", "[,", "{,", ",}" or ",," come out as they
\* are.
C28_ValidJsonUnaltered ==
  (given.kind = "valid" /\ pc = "done") =>
    /\ JsonParse(given.text).ok /\ JsonParse(given.text).v = given.value
    /\ outcome.out[1] = given.value

----------------------------------------------------------------------------
(* SpecClause: resolveTemplate called on a CASE, LIST or TABLE one clause of *)
(* which is written out of form                                              *)

\* templates in which a clause has no closer of its own before what follows
\* it, or a CASE has two DEFAULT clauses
Unclosed ==
  <<[opener |-> "WHEN", before |-> "WHEN",
     text |-> <<"{","{","C","A","S","E"," ","s","}","}","{","{","W","H","E","N"," ","\"","a","\"","}","}","A","{","{","W","H","E","N"," ","\"","b","\"","}","}","B","{","{","E","N","D","_","W","H","E","N","}","}","{","{","E","N","D","_","C","A","S","E","}","}">>],
    [opener |-> "WHEN", before |-> "DEFAULT",
     text |-> <<"{","{","C","A","S","E"," ","s","}","}","{","{","W","H","E","N"," ","\"","a","\"","}","}","A","{","{","D","E","F","A","U","L","T","}","}","D","{","{","E","N","D","_","D","E","F","A","U","L","T","}","}","{","{","E","N","D","_","C","A","S","E","}","}">>],
    [opener |-> "WHEN", before |-> "END_CASE", text |-> <<"{","{","C","A","S","E"," ","s","}","}","{","{","W","H","E","N"," ","\"","a","\"","}","}","A","{","{","E","N","D","_","C","A","S","E","}","}">>],
    [opener |-> "DEFAULT", before |-> "WHEN",
     text |-> <<"{","{","C","A","S","E"," ","s","}","}","{","{","D","E","F","A","U","L","T","}","}","D","{","{","W","H","E","N"," ","\"","a","\"","}","}","A","{","{","E","N","D","_","W","H","E","N","}","}","{","{","E","N","D","_","C","A","S","E","}","}">>],
    [opener |-> "DEFAULT", before |-> "END_CASE", text |-> <<"{","{","C","A","S","E"," ","s","}","}","{","{","D","E","F","A","U","L","T","}","}","D","{","{","E","N","D","_","C","A","S","E","}","}">>],
    [opener |-> "DEFAULT", before |-> "second DEFAULT",
     text |-> <<"{","{","C","A","S","E"," ","s","}","}","{","{","D","E","F","A","U","L","T","}","}","D","{","{","E","N","D","_","D","E","F","A","U","L","T","}","}","{","{","D","E","F","A","U","L","T","}","}","E","{","{","E","N","D","_","D","E","F","A","U","L","T","}","}","{","{","E","N","D","_","C","A","S","E","}","}">>],
    [opener |-> "LIST_ITEM", before |-> "LIST_ITEM",
     text |-> <<"{","{","L","I","S","T","}","}","{","{","L","I","S","T","_","I","T","E","M","}","}","a","{","{","L","I","S","T","_","I","T","E","M","}","}","b","{","{","E","N","D","_","L","I","S","T","_","I","T","E","M","}","}","{","{","E","N","D","_","L","I","S","T","}","}">>],
    [opener |-> "LIST_ITEM", before |-> "END_LIST", text |-> <<"{","{","L","I","S","T","}","}","{","{","L","I","S","T","_","I","T","E","M","}","}","a","{","{","E","N","D","_","L","I","S","T","}","}">>],
    [opener |-> "HEADER", before |-> "ROW",
     text |-> <<"{","{","T","A","B","L","E","}","}","{","{","H","E","A","D","E","R","}","}","h","{","{","R","O","W","}","}","r","{","{","E","N","D","_","R","O","W","}","}","{","{","E","N","D","_","T","A","B","L","E","}","}">>],
    [opener |-> "HEADER", before |-> "END_TABLE", text |-> <<"{","{","T","A","B","L","E","}","}","{","{","H","E","A","D","E","R","}","}","h","{","{","E","N","D","_","T","A","B","L","E","}","}">>],
    [opener |-> "ROW", before |-> "ROW",
     text |-> <<"{","{","T","A","B","L","E","}","}","{","{","R","O","W","}","}","r","{","{","R","O","W","}","}","q","{","{","E","N","D","_","R","O","W","}","}","{","{","E","N","D","_","T","A","B","L","E","}","}">>],
    [opener |-> "ROW", before |-> "END_TABLE", text |-> <<"{","{","T","A","B","L","E","}","}","{","{","R","O","W","}","}","r","{","{","E","N","D","_","T","A","B","L","E","}","}">>]>>

\* what the CASE expression s is bound to
ClauseSubjects == {<<"a">>, <<"b">>, <<"z","z">>}

\* the argument of a WHEN as written and the value it is to match: the text
\* between the quotes with \" for ", or the bare identifier
WhenForms ==
  <<[written |-> <<"\"","a","c","t","i","v","e","\"">>, value |-> <<"a","c","t","i","v","e">>, form |-> "quoted"],
    [written |-> <<"'","a","c","t","i","v","e","'">>, value |-> <<"a","c","t","i","v","e">>, form |-> "quoted"],
    [written |-> <<"\"","i","n"," ","r","e","v","i","e","w","\"">>, value |-> <<"i","n"," ","r","e","v","i","e","w">>, form |-> "quoted"],
    [written |-> <<"a","c","t","i","v","e">>, value |-> <<"a","c","t","i","v","e">>, form |-> "bare"],
    [written |-> <<"\"","s","a","y"," ","\\","\"","h","i","\\","\"","\"">>, value |-> <<"s","a","y"," ","\"","h","i","\"">>, form |-> "escaped"]>>

\* what the CASE expression s renders as
WhenSubjects == {<<"a","c","t","i","v","e">>, <<"i","n"," ","r","e","v","i","e","w">>, <<"s","a","y"," ","\"","h","i","\"">>, <<"s","a","y"," ","\\">>, <<"o","t","h","e","r">>}

\* conditions over a variable u the caller does not bind (t and f are bound to
\* true and false), and what each comes to when its operand is null
AbsentForms ==
  <<[text |-> <<"u">>, to |-> "false"], [text |-> <<"u",".","a">>, to |-> "false"], [text |-> <<"u",".","a",".","0">>, to |-> "false"],
    [text |-> <<"N","O","T","(","u",")">>, to |-> "true"], [text |-> <<"N","O","T","(","u",".","a",")">>, to |-> "true"],
    [text |-> <<"u"," ","i","s","E","m","p","t","y">>, to |-> "true"], [text |-> <<"u",".","a"," ","i","s","E","m","p","t","y">>, to |-> "true"],
    [text |-> <<"u"," ","i","s","N","o","t","E","m","p","t","y">>, to |-> "false"], [text |-> <<"u"," ","i","s","N","u","m","b","e","r">>, to |-> "false"],
    [text |-> <<"u"," ","=","="," ","n","u","l","l">>, to |-> "true"], [text |-> <<"u",".","a"," ","=","="," ","n","u","l","l">>, to |-> "true"],
    [text |-> <<"u"," ","!","="," ","n","u","l","l">>, to |-> "false"], [text |-> <<"u"," ","=","="," ","\"","x","\"">>, to |-> "false"],
    [text |-> <<"u"," ","c","o","n","t","a","i","n","s"," ","\"","x","\"">>, to |-> "false"], [text |-> <<"u"," ","A","N","D"," ","t">>, to |-> "false"],
    [text |-> <<"u"," ","O","R"," ","f">>, to |-> "false"], [text |-> <<"u",".","a"," ","O","R"," ","t">>, to |-> "true"],
    [text |-> <<"u"," ",">"," ","1">>, to |-> "TypeError"]>>

\* where the condition stands
AbsentSites == {"IF", "ELSEIF", "LIST_ITEM"}

AbsentText(site, condition) ==
  CASE site = "IF" -> <<"{","{","I","F"," ">> \o condition \o <<"}","}","T","{","{","E","L","S","E","}","}","F","{","{","E","N","D","_","I","F","}","}">>
    [] site = "ELSEIF" -> <<"{","{","I","F"," ","f","}","}","A","{","{","E","L","S","E","I","F"," ">> \o condition \o <<"}","}","T","{","{","E","L","S","E","}","}","F","{","{","E","N","D","_","I","F","}","}">>
    [] site = "LIST_ITEM" ->
         <<"{","{","L","I","S","T","}","}","{","{","L","I","S","T","_","I","T","E","M"," ">> \o condition \o <<" ","|"," ","f","a","l","l","b","a","c","k","=","\"","F","\"","}","}","T","{","{","E","N","D","_","L","I","S","T","_","I","T","E","M","}","}","{","{","E","N","D","_","L","I","S","T","}","}">>

ClauseInit ==
  \/ \E a \in 1..Len(AbsentForms), site \in AbsentSites, strict \in BOOLEAN :
       LexStart([kind |-> "absent", site |-> site, condition |-> AbsentForms[a].text, to |-> AbsentForms[a].to],
                AbsentText(site, AbsentForms[a].text), << <<<<"t">>, Bool(TRUE)>>, <<<<"f">>, Bool(FALSE)>> >>, strict)
  \/ \E u \in 1..Len(Unclosed), s \in ClauseSubjects, strict \in BOOLEAN :
       LexStart([kind |-> "unclosed", opener |-> Unclosed[u].opener, before |-> Unclosed[u].before],
                Unclosed[u].text, << <<<<"s">>, Str(s)>> >>, strict)
  \/ \E w \in 1..Len(WhenForms), s \in WhenSubjects, strict \in BOOLEAN :
       LexStart([kind |-> "when", form |-> WhenForms[w].form, value |-> WhenForms[w].value, subject |-> s],
                <<"{","{","C","A","S","E"," ","s","}","}","{","{","W","H","E","N"," ">> \o WhenForms[w].written
                  \o <<"}","}","W","{","{","E","N","D","_","W","H","E","N","}","}","{","{","D","E","F","A","U","L","T","}","}","D","{","{","E","N","D","_","D","E","F","A","U","L","T","}","}","{","{","E","N","D","_","C","A","S","E","}","}">>,
                << <<<<"s">>, Str(s)>> >>, strict)

SpecClause == ClauseInit /\ [][RenderNext]_vars

----------------------------------------------------------------------------
(* Properties of SpecClause *)

IsSyntaxError(o) == o.kind = "throw" /\ o.error.type = "SyntaxError"

\* C21: a template in which a WHEN, DEFAULT, LIST_ITEM, HEADER or ROW has no
\* closer of its own before the next clause or the end of its block, or in
\* which a CASE has more than one DEFAULT, is rejected with SyntaxError.
C21_UnclosedRejected ==
  (given.kind = "unclosed" /\ pc = "done") => IsSyntaxError(outcome)

\* what of C21 the Parser does: a WHEN in the body of a DEFAULT that has no
\* END_DEFAULT is the one such template it rejects
C21_RejectedOnlyWhenInDefault ==
  (given.kind = "unclosed" /\ pc = "done") =>
    (IsSyntaxError(outcome) <=> (given.opener = "DEFAULT" /\ given.before = "WHEN"))

\* C22: the value a WHEN matches is the text between its quotes with every
\* \" taken for ", or the identifier when it is written bare: the CASE
\* renders the WHEN when its expression renders as that value and the DEFAULT
\* when not.
C22_WhenValue ==
  (given.kind = "when" /\ pc = "done") =>
    outcome = Ok(IF given.subject = given.value THEN <<"W">> ELSE <<"D">>)

\* what of C22 the Parser does: the claim holds of a WHEN written in quotes
\* that has no \" in it
C22_QuotedWhenValue ==
  (given.kind = "when" /\ given.form = "quoted" /\ pc = "done") =>
    outcome = Ok(IF given.subject = given.value THEN <<"W">> ELSE <<"D">>)


\* what the template of an "absent" condition renders when the condition
\* comes to the given truth value
AbsentOutput(to) ==
  (IF given.site = "LIST_ITEM" THEN <<"1","."," ">> ELSE <<>>) \o (IF to = "true" THEN <<"T">> ELSE <<"F">>)

\* C26: a condition (IF, ELSEIF, LIST_ITEM) whose operand's root variable is
\* absent evaluates that operand to null, falsy and empty for isEmpty, and
\* never raises MissingVariableError, in strict mode exactly as in lenient
\* mode: the template renders what the condition comes to with null for the
\* operand (a TypeError when null is compared by size).
C26_AbsentOperandNull ==
  (given.kind = "absent" /\ pc = "done") =>
    IF given.to = "TypeError" THEN outcome.kind = "throw" /\ outcome.error.type = "TypeError"
    ELSE outcome = Ok(AbsentOutput(given.to))

\* what of C26 evaluateCondition does: no MissingVariableError in either
\* mode, and the outcome of null for the operand everywhere but in a == or !=
\* on the bare name, where the operand is undefined and compares as the text
\* "undefined"
C26_AbsentOperandNeverMissing ==
  (given.kind = "absent" /\ pc = "done") =>
    /\ ~(outcome.kind = "throw" /\ outcome.error.type = "MissingVariableError")
    /\ CASE given.to = "TypeError" -> outcome.kind = "throw" /\ outcome.error.type = "TypeError"
         [] given.condition \in {<<"u"," ","=","="," ","n","u","l","l">>, <<"u"," ","!","="," ","n","u","l","l">>} ->
              outcome = Ok(AbsentOutput(IF given.to = "true" THEN "false" ELSE "true"))
         [] OTHER -> outcome = Ok(AbsentOutput(given.to))
----------------------------------------------------------------------------
(* SpecPath: one dot-path resolved both ways, by Interpreter.resolveNestedPath *)
(* as visitVariable calls it and by resolveValue as evaluateCondition calls it; *)
(* template holds the path, pc is "resolve" before the calls and "done" after *)

\* the most segments of a path after its root
MaxPath == 3

\* the segments after the root d
PathSegments == {<<"k">>, <<"j">>, <<"0">>, <<"1">>}

\* what d is bound to, and what the hops of a path into it go through: values
\* that are no strings ("plain"), a string that holds a JSON object, a JSON
\* array, JSON with stray commas, or no JSON ("text")
PathRoots ==
  <<[hops |-> "plain", value |-> Obj(<< <<<<"k">>, IntV(7)>>, <<<<"j">>, Obj(<< <<<<"k">>, IntV(8)>> >>)>>,
                                        <<<<"0">>, Arr(<<IntV(5), Null>>)>> >>)],
    [hops |-> "plain", value |-> Arr(<<IntV(7), Arr(<<IntV(8), Obj(<< <<<<"k">>, IntV(9)>> >>)>>)>>)],
    [hops |-> "plain", value |-> IntV(7)],
    [hops |-> "plain", value |-> Null],
    [hops |-> "json object", value |-> Str(<<"{","\"","k","\"",":","7",",","\"","j","\"",":","{","\"","k","\"",":","[","8",",","9","]","}","}">>)],
    [hops |-> "json object", value |-> Obj(<< <<<<"k">>, Str(<<" ","{","\"","j","\"",":"," ","{","\"","1","\"",":"," ","t","r","u","e","}","}"," ">>)>> >>)],
    [hops |-> "json array", value |-> Str(<<"[","7",",","8","]">>)],
    [hops |-> "json array", value |-> Obj(<< <<<<"k">>, Str(<<"[","7",",","[","8",",","9","]","]">>)>> >>)],
    [hops |-> "json array", value |-> Arr(<<Str(<<"[","{","\"","k","\"",":","7","}","]">>)>>)],
    [hops |-> "stray commas", value |-> Str(<<"{",",","\"","k","\"",":","7","}">>)],
    [hops |-> "stray commas", value |-> Obj(<< <<<<"j">>, Str(<<"{","\"","k","\"",":","[","7",",","8","]",",","}">>)>> >>)],
    [hops |-> "text", value |-> Str(<<"p","l","a","i","n">>)],
    [hops |-> "text", value |-> Obj(<< <<<<"k">>, Str(<<"7">>)>>, <<<<"j">>, Str(<<"n","u","l","l">>)>> >>)]>>

PathStart(g, path, vs, strict) ==
  /\ pc = "resolve"
  /\ given = g
  /\ template = path
  /\ variables = vs
  /\ strictMode = strict
  /\ loopContext = <<>>
  /\ tokens = <<>> /\ pos = 0 /\ line = 1 /\ column = 1
  /\ ast = <<>> /\ results = <<>> /\ trace = <<>> /\ outcome = <<>>

\* a path d.x.y... into a bound d, or into no d at all
PathInit ==
  \E n \in 0..MaxPath, strict \in BOOLEAN, r \in 0..Len(PathRoots) :
    \E segments \in [1..n -> PathSegments] :
      PathStart([kind |-> "path", hops |-> IF r = 0 THEN "absent" ELSE PathRoots[r].hops, segments |-> segments],
                Join(<<<<"d">>>> \o segments, <<".">>),
                IF r = 0 THEN <<>> ELSE << <<<<"d">>, PathRoots[r].value>> >>, strict)

\* visitVariable's this.resolveNestedPath(node.path, node.defaultValue !==
\* undefined) of a substitution without default, its path as the Parser splits
\* it, and resolveValue(path, this.getAllVariables())
PathResolve ==
  /\ pc = "resolve"
  /\ outcome' = [kind |-> "resolved",
                 substitution |-> resolveNestedPath(Split(template, <<".">>), FALSE, variables, loopContext,
                                                    strictMode),
                 operand |-> resolveValue(template, getAllVariables(variables, loopContext))]
  /\ pc' = "done"
  /\ UNCHANGED <<template, variables, strictMode, loopContext, tokens, pos, line, column, ast, results,
                 trace, given>>

PathNext == PathResolve

SpecPath == PathInit /\ [][PathNext]_vars

----------------------------------------------------------------------------
(* Properties of SpecPath *)

\* the same value; null and undefined, which render and test alike, taken
\* for one
SameValue(a, b) == a = b \/ (IsNullish(a) /\ IsNullish(b))

\* C27: a dot-path resolves to the same value whether it is used in a
\* substitution (Interpreter.resolveNestedPath) or as an operand of a
\* condition or of an arithmetic expression (resolveValue), for every
\* environment, intermediate hops that are strings holding a JSON array, or
\* JSON with stray commas, included. (A substitution that raises
\* MissingVariableError resolves to no value and is left out.)
C27_SamePathValue ==
  (given.kind = "path" /\ pc = "done" /\ ~outcome.substitution.err) =>
    SameValue(outcome.substitution.v, outcome.operand)

\* what of C27 the two resolvers do: the same value when no hop goes through
\* a string, or only through strings that hold a JSON object as JSON.parse
\* takes it, or no JSON
C27_SamePathValueOfObjects ==
  (given.kind = "path" /\ pc = "done" /\ ~outcome.substitution.err
     /\ given.hops \in {"absent", "plain", "json object", "text"}) =>
    SameValue(outcome.substitution.v, outcome.operand)

\* a hop into a string that holds a JSON array: null for the substitution,
\* the element for the operand
C27_ArrayHopDiffers ==
  /\ given.kind = "path" /\ pc = "done"
  /\ template = <<"d",".","0">> /\ MapGet(variables, <<"d">>) = Str(<<"[","7",",","8","]">>)
  /\ outcome.substitution.v = Null /\ outcome.operand = IntV(7)

\* a hop into a string that holds JSON with a stray comma: the member for the
\* substitution, null for the operand
C27_StrayCommaHopDiffers ==
  /\ given.kind = "path" /\ pc = "done"
  /\ template = <<"d",".","k">> /\ MapGet(variables, <<"d">>) = Str(<<"{",",","\"","k","\"",":","7","}">>)
  /\ outcome.substitution.v = IntV(7) /\ outcome.operand = Null

----------------------------------------------------------------------------
(* extractAllVariables (utils.ts) and TemplateResolver.execute for one item *)

\* the characters of a root name in the order of their UTF-16 code units
NameOrder == Digits \o <<"@">> \o Uppers \o <<"_">> \o Lowers

\* a < b as Array.prototype.sort orders two names without a comparator
RECURSIVE NameLess(_, _)
NameLess(a, b) ==
  IF b = <<>> THEN FALSE
  ELSE IF a = <<>> THEN TRUE
  ELSE IF a[1] # b[1] THEN IndexIn(a[1], NameOrder) < IndexIn(b[1], NameOrder)
  ELSE NameLess(Tail(a), Tail(b))

\* Array.from(set).sort()
RECURSIVE SortNames(_)
SortNames(set) ==
  IF set = {} THEN <<>>
  ELSE With([least \in {CHOOSE a \in set : \A b \in set \ {a} : NameLess(a, b)} |->
         <<least>> \o SortNames(set \ {least})])

\* [a-zA-Z_]
IsNameStart(c) == IsWord(c) /\ ~IsDigit(c)

\* match[1] of every match of varPattern, /\$\{\{([a-zA-Z_@][a-zA-Z0-9_@.]*)/g
VarMatches(template_) ==
  {RunFrom(template_, i + 3, "name") :
     i \in {j \in 0..Len(template_) : /\ StartsWithAt(template_, <<"$","{","{">>, j)
                                     /\ (IsNameStart(At(template_, j + 3)) \/ At(template_, j + 3) = "@")}}

\* match[2] of every match of controlPattern,
\* /\{\{(IF|CASE|FOR)\s+([a-zA-Z_][a-zA-Z0-9_@.]*)/gi
ControlMatches(template_) ==
  With([lower \in {ToLower(template_)} |->
    UNION {{RunFrom(template_, BlankRun(template_, i + 2 + Len(kw)), "name") :
              i \in {j \in 0..Len(template_) :
                       /\ StartsWithAt(lower, <<"{","{">> \o kw, j)
                       /\ IsSpace(At(template_, j + 2 + Len(kw)))
                       /\ IsNameStart(At(template_, BlankRun(template_, j + 2 + Len(kw))))}} :
            kw \in {<<"i","f">>, <<"c","a","s","e">>, <<"f","o","r">>}}])

\* match[1] of every match of ternaryPattern, /\{\{([a-zA-Z_][a-zA-Z0-9_@.]*)\s*\?/g
TernaryMatches(template_) ==
  {RunFrom(template_, i + 2, "name") :
     i \in {j \in 0..Len(template_) :
              /\ StartsWithAt(template_, <<"{","{">>, j)
              /\ IsNameStart(At(template_, j + 2))
              /\ With([name \in {RunFrom(template_, j + 2, "name")} |->
                   At(template_, BlankRun(template_, j + 2 + Len(name))) = "?"])}}

extractAllVariables(template_) ==
  With([vs \in {{Trim(Split(Split(Split(m, <<".">>)[1], <<"|">>)[1], <<"?","?">>)[1]) : m \in VarMatches(template_)}},
        cs \in {{Trim(Split(Split(m, <<".">>)[1], <<" ">>)[1]) : m \in ControlMatches(template_)}},
        ts \in {{Trim(Split(m, <<".">>)[1]) : m \in TernaryMatches(template_)}} |->
    SortNames({r \in vs \cup cs \cup ts : r # <<>> /\ ~StartsWith(r, <<"@">>)})])

\* the message of the NodeOperationError for unmapped variables
UnmappedMessage(missing, detected) ==
  <<"T","e","m","p","l","a","t","e"," ","r","e","q","u","i","r","e","s"," ","u","n","m","a","p","p","e","d"," ","v","a","r","i","a","b","l","e","s",":"," ">> \o Join(missing, <<","," ">>) \o <<"."," ">>
    \o <<"A","d","d"," ","m","a","p","p","i","n","g","s"," ","o","r"," ","d","i","s","a","b","l","e"," ","\"","S","t","r","i","c","t"," ","M","o","d","e","\"","."," ">> \o <<"D","e","t","e","c","t","e","d"," ","v","a","r","i","a","b","l","e","s",":"," ">> \o Join(detected, <<","," ">>)

\* the variables map execute builds from the mappings: those with a name and a
\* value
RECURSIVE MappedVariables(_, _)
MappedVariables(mappings, map) ==
  IF mappings = <<>> THEN map
  ELSE MappedVariables(Tail(mappings),
                       IF mappings[1][1] # <<>> /\ mappings[1][2] # Undef
                       THEN MapSet(map, mappings[1][1], mappings[1][2]) ELSE map)

\* variables.set(v, "") for each missing name
RECURSIVE FillMissing(_, _)
FillMissing(map, missing) ==
  IF missing = <<>> THEN map ELSE FillMissing(MapSet(map, missing[1], Str(<<>>)), Tail(missing))

\* bodies of {{FOR items AS item}}: the text, and the names it needs from the
\* caller beyond items
ExecBodies ==
  <<[text |-> <<"x">>, needs |-> {}],
    [text |-> <<"$","{","{","i","t","e","m","}","}">>, needs |-> {}],
    [text |-> <<"$","{","{","i","t","e","m",".","n","a","m","e","}","}">>, needs |-> {}],
    [text |-> <<"$","{","{"," ","i","t","e","m"," ","}","}">>, needs |-> {}],
    [text |-> <<"$","{","{","i","t","e","m"," ","|"," ","u","p","p","e","r","}","}">>, needs |-> {}],
    [text |-> <<"$","{","{","@","i","n","d","e","x","}","}">>, needs |-> {}],
    [text |-> <<"{","{","I","F"," ","i","t","e","m","}","}","y","{","{","E","N","D","_","I","F","}","}">>, needs |-> {}],
    [text |-> <<"{","{","I","F"," ","@","f","i","r","s","t","}","}","y","{","{","E","N","D","_","I","F","}","}">>, needs |-> {}],
    [text |-> <<"{","{","F","O","R"," ","i","t","e","m",".","t","a","g","s"," ","A","S"," ","t","a","g","}","}","$","{","{","@","i","n","d","e","x","}","}","{","{","E","N","D","_","F","O","R","}","}">>, needs |-> {}],
    [text |-> <<"$","{","{","o","t","h","e","r","}","}">>, needs |-> {<<"o","t","h","e","r">>}],
    [text |-> <<"{","{","I","F"," ","o","t","h","e","r",".","n","a","m","e","}","}","y","{","{","E","N","D","_","I","F","}","}">>, needs |-> {<<"o","t","h","e","r">>}]>>

\* the mappings of the node: every name the templates need, some of them, a
\* mapping without value and one without name
ExecMappings ==
  With([items \in {<<<<"i","t","e","m","s">>, Arr(<<Obj(<< <<<<"n","a","m","e">>, Str(<<"n">>)>>, <<<<"t","a","g","s">>, Arr(<<Str(<<"g">>)>>)>> >>)>>)>>},
        title \in {<<<<"t","i","t","l","e">>, Str(<<"T">>)>>}, other \in {<<<<"o","t","h","e","r">>, Obj(<< <<<<"n","a","m","e">>, Str(<<"o">>)>> >>)>>} |->
    {<<>>, <<items>>, <<items, title>>, <<items, other>>, <<title, items, other>>,
     <<items, <<<<"t","i","t","l","e">>, Undef>>, <<<<>>, Str(<<"T">>)>>, other>>}])

\* execute entered for an item: template, mappings and strictMode are the
\* node's parameters
ExecInit ==
  \E b \in 1..Len(ExecBodies), titled \in BOOLEAN, mappings \in ExecMappings, strict \in BOOLEAN,
     continueOnFail \in BOOLEAN :
    /\ pc = "execute"
    /\ given = [kind |-> "execute", mappings |-> mappings, continueOnFail |-> continueOnFail,
                needs |-> {<<"i","t","e","m","s">>} \cup ExecBodies[b].needs \cup (IF titled THEN {<<"t","i","t","l","e">>} ELSE {})]
    /\ template = (IF titled THEN <<"$","{","{","t","i","t","l","e","}","}",":"," ">> ELSE <<>>)
                    \o <<"{","{","F","O","R"," ","i","t","e","m","s"," ","A","S"," ","i","t","e","m","}","}">> \o ExecBodies[b].text \o <<"{","{","E","N","D","_","F","O","R","}","}">>
    /\ variables = <<>>
    /\ strictMode = strict
    /\ loopContext = <<>>
    /\ tokens = <<>> /\ pos = 0 /\ line = 1 /\ column = 1
    /\ ast = <<>> /\ results = <<>> /\ trace = <<>> /\ outcome = <<>>

\* execute up to its call of resolveTemplate: the detected variables, the
\* variables map, the check for unmapped variables and the fill of lenient mode
Execute ==
  /\ pc = "execute"
  /\ \E detectedVariables \in {extractAllVariables(template)}, mapped \in {MappedVariables(given.mappings, <<>>)} :
       \E missingVariables \in {SelectSeq(detectedVariables, LAMBDA v : ~MapHas(mapped, v))} :
         IF strictMode /\ missingVariables # <<>>
         THEN /\ outcome' = Throw("NodeOperationError", UnmappedMessage(missingVariables, detectedVariables), <<>>)
              /\ variables' = mapped
              /\ pc' = "done"
         ELSE /\ outcome' = outcome
              /\ variables' = IF strictMode THEN mapped ELSE FillMissing(mapped, missingVariables)
              /\ pc' = "scan"
  /\ UNCHANGED <<template, strictMode, loopContext, tokens, pos, line, column, ast, results, trace, given>>

\* the end of the try block and the catch of execute: the item pushed to
\* returnData (out is its resolved text; the name of the output field and
\* _template_metadata are not represented), or the error thrown on
Return ==
  /\ pc = "done"
  /\ given.kind = "execute"
  /\ outcome' = IF outcome.kind = "ok" THEN [kind |-> "item", out |-> outcome.out, error |-> NoError]
                ELSE IF given.continueOnFail THEN [kind |-> "item", out |-> <<>>, error |-> outcome.error]
                ELSE [outcome EXCEPT !.error.type = "NodeOperationError"]
  /\ pc' = "returned"
  /\ UNCHANGED <<template, variables, strictMode, loopContext, tokens, pos, line, column, ast, results,
                 trace, given>>

ExecNext == Execute \/ RenderNext \/ Return

SpecExec == ExecInit /\ [][ExecNext]_vars

----------------------------------------------------------------------------
(* Properties of SpecExec *)

\* the names of the mappings that enter the variables map
MappedNames ==
  {given.mappings[k][1] : k \in {j \in 1..Len(given.mappings) : /\ given.mappings[j][1] # <<>>
                                                                /\ given.mappings[j][2] # Undef}}

\* the names extractAllVariables reports
Detected == With([d \in {extractAllVariables(template)} |-> {d[k] : k \in 1..Len(d)}])

\* execute ended with the error for unmapped variables
RejectedUnmapped ==
  /\ outcome.error # NoError
  /\ StartsWith(outcome.error.name, <<"T","e","m","p","l","a","t","e"," ","r","e","q","u","i","r","e","s"," ","u","n","m","a","p","p","e","d"," ","v","a","r","i","a","b","l","e","s",":"," ">>)

\* C30: extractAllVariables(template) reports only names the caller must
\* supply, never the alias bound by {{FOR path AS alias}} nor any @ loop
\* variable, so the strict-mode check for unmapped variables does not reject
\* a template whose only unmapped names are loop aliases used inside their
\* own FOR body.
C30_OnlyCallerNames ==
  (given.kind = "execute" /\ pc = "returned") =>
    /\ Detected \subseteq given.needs
    /\ (strictMode /\ given.needs \subseteq MappedNames) => ~RejectedUnmapped

\* what of C30 extractAllVariables does: it reports every name the caller
\* must supply and no @ loop variable, and an alias only where the body uses
\* it right after ${{ or first in an IF, CASE or FOR; when it reports none, strict
\* mode does not reject the template whose other names are mapped
C30_NoLoopVariables ==
  (given.kind = "execute" /\ pc = "returned") =>
    With([detected \in {Detected} |->
      /\ given.needs \subseteq detected
      /\ \A name \in detected : ~StartsWith(name, <<"@">>)
      /\ detected \ given.needs \subseteq {<<"i","t","e","m">>}
      /\ (<<"i","t","e","m">> \in detected) <=>
           \E use \in {<<"$","{","{","i","t","e","m">>, <<"{","{","I","F"," ","i","t","e","m">>, <<"{","{","F","O","R"," ","i","t","e","m",".">>} : Includes(template, use)
      /\ (strictMode /\ detected \subseteq MappedNames) => ~RejectedUnmapped])

\* every name mapped but the alias, strict mode: the template is rejected
C30_AliasRejected ==
  /\ given.kind = "execute" /\ pc = "returned" /\ strictMode /\ ~given.continueOnFail
  /\ template = <<"{","{","F","O","R"," ","i","t","e","m","s"," ","A","S"," ","i","t","e","m","}","}","$","{","{","i","t","e","m",".","n","a","m","e","}","}","{","{","E","N","D","_","F","O","R","}","}">>
  /\ MappedNames = {<<"i","t","e","m","s">>}
  /\ outcome = Throw("NodeOperationError",
                     UnmappedMessage(<<<<"i","t","e","m">>>>, <<<<"i","t","e","m">>, <<"i","t","e","m","s">>>>), <<>>)

====
